---- MODULE Spec2Model ----
(***************************************************************************)
(* A model of the repository-scan-and-analyze pipeline of                  *)
(* gemini_integration.py (AutomatedLeetCodeSystem): crawl, classify,       *)
(* batch annotation, upsert and the orchestration in process_repository.   *)
(*                                                                         *)
(* Python strings are modelled as sequences of one-character strings, so   *)
(* that lower(), endswith(), the substring test and the regular            *)
(* expressions are computed character by character.  The empty string is   *)
(* <<>>.  TLA+ strings are used only for tags (types, statuses, program    *)
(* positions).                                                             *)
(***************************************************************************)
EXTENDS Integers, Sequences, FiniteSets, TLC

----------------------------------------------------------------------------
(* String literals.                                                        *)

s_empty ==
    << >>
s_Unknown ==
    <<"U", "n", "k", "n", "o", "w", "n">>
s_problem ==
    <<"p", "r", "o", "b", "l", "e", "m">>
s_test ==
    <<"t", "e", "s", "t">>
s_helper ==
    <<"h", "e", "l", "p", "e", "r">>
s_slash ==
    <<"/">>
UpperChars ==
    <<"A", "B", "C", "D", "E", "F", "G", "H", "I", "J", "K", "L", "M", "N", "O", "P", "Q", "R", "S", "T", "U", "V", "W", "X", "Y", "Z">>
LowerChars ==
    <<"a", "b", "c", "d", "e", "f", "g", "h", "i", "j", "k", "l", "m", "n", "o", "p", "q", "r", "s", "t", "u", "v", "w", "x", "y", "z">>

Digits ==
    {"0", "1", "2", "3", "4", "5", "6", "7", "8", "9"}

----------------------------------------------------------------------------
(* str methods and the two regular expressions of extract_problem_number.  *)

\* str.lower() on one character and on a string
LowerChar(c) ==
    IF \E k \in 1..Len(UpperChars) : UpperChars[k] = c
    THEN LowerChars[CHOOSE k \in 1..Len(UpperChars) : UpperChars[k] = c]
    ELSE c

Lower(s) ==
    [k \in 1..Len(s) |-> LowerChar(s[k])]

\* s[k:k+len(sub)] == sub  (k is a 1-based position)
MatchAt(sub, s, k) ==
    /\ k >= 1
    /\ k + Len(sub) - 1 <= Len(s)
    /\ \A j \in 1..Len(sub) : s[k + j - 1] = sub[j]

\* sub in s
Contains(sub, s) ==
    \E k \in 1..(Len(s) + 1) : MatchAt(sub, s, k)

\* s.endswith(suffix)
EndsWith(s, suffix) ==
    /\ Len(suffix) <= Len(s)
    /\ MatchAt(suffix, s, Len(s) - Len(suffix) + 1)

\* s.replace(old, new), left to right
RECURSIVE Replace(_, _, _)
Replace(s, old, new) ==
    IF old = s_empty \/ ~Contains(old, s) THEN s
    ELSE LET k == CHOOSE a \in 1..Len(s) :
                      /\ MatchAt(old, s, a)
                      /\ \A b \in 1..(a - 1) : ~MatchAt(old, s, b)
         IN  SubSeq(s, 1, k - 1) \o new
                 \o Replace(SubSeq(s, k + Len(old), Len(s)), old, new)

\* s.strip() for the only whitespace the model has, the space
RECURSIVE Strip(_)
Strip(s) ==
    IF s # s_empty /\ s[1] = " " THEN Strip(Tail(s))
    ELSE IF s # s_empty /\ s[Len(s)] = " " THEN Strip(SubSeq(s, 1, Len(s) - 1))
    ELSE s

\* the number of digits of s from position k on, at most cap
RECURSIVE DigitRun(_, _, _)
DigitRun(s, k, cap) ==
    IF cap = 0 \/ k > Len(s) \/ s[k] \notin Digits
    THEN 0
    ELSE 1 + DigitRun(s, k + 1, cap - 1)

\* SearchDigits for the pattern r'(\d+)': the whole run of digits
SearchDigits_whole_run(s) ==
    IF \E k \in 1..Len(s) : s[k] \in Digits
    THEN LET k == CHOOSE a \in 1..Len(s) :
                      /\ s[a] \in Digits
                      /\ \A b \in 1..(a - 1) : s[b] \notin Digits
         IN  <<SubSeq(s, k, k + DigitRun(s, k, Len(s)) - 1)>>
    ELSE << >>

\* re.search(r'(\d{1,4})', s): leftmost digit, then greedily up to 4 digits
SearchDigits(s) ==
    IF \E k \in 1..Len(s) : s[k] \in Digits
    THEN LET k == CHOOSE a \in 1..Len(s) :
                      /\ s[a] \in Digits
                      /\ \A b \in 1..(a - 1) : s[b] \notin Digits
         IN  <<SubSeq(s, k, k + DigitRun(s, k, 4) - 1)>>
    ELSE << >>

\* position of the four digits when 'problem[_-]?(\d{4})' matches at k, else 0
ProblemMatchAt(s, k) ==
    IF ~MatchAt(s_problem, s, k)
    THEN 0
    ELSE LET a == k + Len(s_problem)
         IN  IF a <= Len(s) /\ s[a] \in {"_", "-"} /\ DigitRun(s, a + 1, 4) = 4
             THEN a + 1
             ELSE IF DigitRun(s, a, 4) = 4 THEN a ELSE 0

\* re.search(r'problem[_-]?(\d{4})', s): the leftmost match
SearchProblem(s) ==
    IF \E k \in 1..Len(s) : ProblemMatchAt(s, k) > 0
    THEN LET k == CHOOSE a \in 1..Len(s) :
                      /\ ProblemMatchAt(s, a) > 0
                      /\ \A b \in 1..(a - 1) : ProblemMatchAt(s, b) = 0
             d == ProblemMatchAt(s, k)
         IN  <<SubSeq(s, d, d + 3)>>
    ELSE << >>

----------------------------------------------------------------------------
(* Classifier: is_code_file, get_language, extract_problem_number.         *)

extensions ==
    <<<<".", "p", "y">>,
      <<".", "j", "a", "v", "a">>,
      <<".", "c", "p", "p">>,
      <<".", "c">>,
      <<".", "j", "s">>,
      <<".", "t", "s">>,
      <<".", "g", "o">>,
      <<".", "r", "s">>,
      <<".", "r", "b">>,
      <<".", "p", "h", "p">>,
      <<".", "s", "w", "i", "f", "t">>,
      <<".", "k", "t">>,
      <<".", "c", "s">>>>

ext_map ==
    <<<<<<".", "p", "y">>, <<"P", "y", "t", "h", "o", "n">>>>,
      <<<<".", "j", "a", "v", "a">>, <<"J", "a", "v", "a">>>>,
      <<<<".", "c", "p", "p">>, <<"C", "+", "+">>>>,
      <<<<".", "c">>, <<"C">>>>,
      <<<<".", "j", "s">>, <<"J", "a", "v", "a", "S", "c", "r", "i", "p", "t">>>>,
      <<<<".", "t", "s">>, <<"T", "y", "p", "e", "S", "c", "r", "i", "p", "t">>>>,
      <<<<".", "g", "o">>, <<"G", "o">>>>,
      <<<<".", "r", "s">>, <<"R", "u", "s", "t">>>>,
      <<<<".", "r", "b">>, <<"R", "u", "b", "y">>>>,
      <<<<".", "p", "h", "p">>, <<"P", "H", "P">>>>,
      <<<<".", "s", "w", "i", "f", "t">>, <<"S", "w", "i", "f", "t">>>>,
      <<<<".", "k", "t">>, <<"K", "o", "t", "l", "i", "n">>>>,
      <<<<".", "c", "s">>, <<"C", "#">>>>>>

is_code_file(filename) ==
    \E k \in 1..Len(extensions) : EndsWith(filename, extensions[k])

\* the first entry of ext_map, in its order, whose extension ends the name
get_language(filename) ==
    IF \E k \in 1..Len(ext_map) : EndsWith(filename, ext_map[k][1])
    THEN ext_map[CHOOSE k \in 1..Len(ext_map) :
                    /\ EndsWith(filename, ext_map[k][1])
                    /\ \A j \in 1..(k - 1) : ~EndsWith(filename, ext_map[j][1])][2]
    ELSE s_Unknown

\* extract_problem_number with the first search run on the path, not on
\* the file name
extract_problem_number_in_path(filename, path) ==
    IF SearchDigits(path) # << >>
    THEN SearchDigits(path)[1]
    ELSE IF SearchProblem(path) # << >>
         THEN SearchProblem(path)[1]
         ELSE s_Unknown

extract_problem_number(filename, path) ==
    IF SearchDigits(filename) # << >>
    THEN SearchDigits(filename)[1]
    ELSE IF SearchProblem(path) # << >>
         THEN SearchProblem(path)[1]
         ELSE s_Unknown

----------------------------------------------------------------------------
(* The remote repository: names of files and directories, and file text.   *)

n_two_sum ==
    <<"1", "-", "t", "w", "o", "-", "s", "u", "m", ".", "p", "y">>
n_test_utils ==
    <<"t", "e", "s", "t", "_", "u", "t", "i", "l", "s", ".", "p", "y">>
n_15 ==
    <<"1", "5">>
n_longest ==
    <<"l", "o", "n", "g", "e", "s", "t", "-", "s", "u", "b", "s", "t", "r", "i", "n", "g", ".", "g", "o">>
n_problem42 ==
    <<"p", "r", "o", "b", "l", "e", "m", "_", "0", "0", "4", "2">>
n_sol ==
    <<"s", "o", "l", ".", "c", "p", "p">>
n_contest ==
    <<"C", "o", "n", "t", "e", "s", "t">>
n_3sum ==
    <<"3", "s", "u", "m", ".", "j", "s">>
n_v12345 ==
    <<"v", "1", "2", "3", "4", "5", ".", "r", "b">>
n_lib ==
    <<"l", "i", "b">>
n_blank ==
    <<"b", "l", "a", "n", "k", ".", "t", "s">>
n_add ==
    <<"2", "-", "a", "d", "d", ".", "k", "t">>
n_sort ==
    <<"s", "o", "r", "t", ".", "p", "y">>
t_code ==
    <<"d", "e", "f", " ", "f", "(", ")", ":", " ", "p", "a", "s", "s">>

FileNode(name, text) ==
    [type |-> "file", name |-> name, text |-> text]

DirNode(name, children) ==
    [type |-> "dir", name |-> name, children |-> children]

\* the entries a repository root is assembled from
NodePool ==
    { FileNode(n_two_sum, t_code),
      FileNode(n_test_utils, t_code),
      FileNode(<<"L", "A", "T", "E", "S", "T", ".", "p", "y">>, t_code),
      FileNode(n_blank, s_empty),
      DirNode(n_15, <<FileNode(n_longest, t_code), [type |-> "symlink", name |-> <<"l", "i", "n", "k", ".", "p", "y">>]>>),
      DirNode(n_problem42, <<FileNode(<<"M", "y", "H", "e", "l", "p", "e", "r", ".", "j", "a", "v", "a">>, t_code), FileNode(<<"n", "o", "t", "e", "s", ".", "t", "x", "t">>, t_code),
                             FileNode(n_sol, t_code)>>),
      DirNode(n_lib, <<DirNode(n_contest, <<FileNode(n_3sum, t_code)>>),
                       FileNode(n_v12345, t_code)>>) }

\* the repository of the crawl scenario: 1-two-sum.py, 15/longest-substring.go,
\* test_utils.py, in the name order of the contents API
ScenarioRoot ==
    <<FileNode(n_two_sum, t_code),
      DirNode(n_15, <<FileNode(n_longest, t_code)>>),
      FileNode(n_test_utils, t_code)>>

\* a repository with two source files at its root
PairRoot ==
    <<FileNode(n_two_sum, t_code), FileNode(n_add, t_code)>>

\* the path the contents API reports for an entry of directory path
JoinPath(path, name) ==
    IF path = s_empty THEN name ELSE path \o s_slash \o name

\* the item of the contents API for a node of directory path
Item(path, node) ==
    [type |-> node.type, name |-> node.name,
     path |-> JoinPath(path, node.name),
     download_url |-> JoinPath(path, node.name)]

\* every <<directory path, nodes>> of a tree
RECURSIVE DirsOf(_, _)
DirsOf(path, nodes) ==
    {<<path, nodes>>} \cup
    UNION { DirsOf(JoinPath(path, nodes[k].name), nodes[k].children) :
              k \in {j \in 1..Len(nodes) : nodes[j].type = "dir"} }

\* every <<file path, text>> of a tree
FilesOf(root) ==
    UNION { { <<JoinPath(d[1], d[2][k].name), d[2][k].text>> :
                k \in {j \in 1..Len(d[2]) : d[2][j].type = "file"} } :
            d \in DirsOf(s_empty, root) }

DirPaths(root) ==
    { d[1] : d \in DirsOf(s_empty, root) }

FilePaths(root) ==
    { f[1] : f \in FilesOf(root) }

\* the listing of a directory, as the contents API returns it
Listing(root, path) ==
    LET d == CHOOSE x \in DirsOf(s_empty, root) : x[1] = path
    IN  [k \in 1..Len(d[2]) |-> Item(path, d[2][k])]

\* the text behind a download url
TextAt(root, url) ==
    (CHOOSE f \in FilesOf(root) : f[1] = url)[2]

\* the greatest number of requests of one crawl that do not answer 200
MaxFaults ==
    1

\* the subsets of S of at most k elements
RECURSIVE AtMost(_, _)
AtMost(S, k) ==
    IF k = 0 THEN {{}}
    ELSE AtMost(S, k - 1) \cup { T \cup {x} : T \in AtMost(S, k - 1), x \in S }

\* the assignments of an outcome of requests.get to each path of paths: an
\* HTTP status, or "neterr" when the request raised; those of faulty are
\* other than "200"
Outcomes(paths, faulty) ==
    { [p \in paths |-> IF p \in faulty THEN st[p] ELSE "200"] :
        st \in [faulty -> {"404", "403", "500", "neterr"}] }

\* the sets of requests of a crawl that fail together; the requests are the
\* contents API on a path and a download url
FaultSets(root) ==
    AtMost({ <<"contents", p>> : p \in DirPaths(root) \cup FilePaths(root) }
               \cup { <<"download", p>> : p \in FilePaths(root) },
           MaxFaults)

NetOutcomes(root, F) ==
    Outcomes(DirPaths(root) \cup FilePaths(root),
             { q[2] : q \in { r \in F : r[1] = "contents" } })

DlOutcomes(root, F) ==
    Outcomes(FilePaths(root), { q[2] : q \in { r \in F : r[1] = "download" } })

----------------------------------------------------------------------------
(* TreeCrawler: get_repo_contents, get_file_content, scan_repository.      *)
(* root is the remote tree; net and dl give the outcome of each request.   *)

\* response.json() of the contents API: a list of items for a directory,
\* one object for a file
JsonList(items) ==
    [json |-> "list", items |-> items]

JsonObject ==
    [json |-> "object", items |-> << >>]

\* a variant of get_repo_contents in which a 404 is not caught at lines
\* 80-82: the body of the error response, one object, is handed back
get_repo_contents_passing_404(root, net, path) ==
    LET status == IF path \in DOMAIN net THEN net[path] ELSE "404"
    IN  IF status = "200"
        THEN IF path \in DirPaths(root)
             THEN JsonList(Listing(root, path))
             ELSE JsonObject
        ELSE IF status = "404" THEN JsonObject
        ELSE JsonList(<< >>)

get_repo_contents(root, net, path) ==
    LET status == IF path \in DOMAIN net THEN net[path] ELSE "404"
    IN  IF status = "200"
        THEN IF path \in DirPaths(root)
             THEN JsonList(Listing(root, path))
             ELSE JsonObject
        ELSE IF status = "404" THEN JsonList(<< >>)
        ELSE IF status = "403" THEN JsonList(<< >>)
        ELSE JsonList(<< >>)

get_file_content(root, dl, download_url) ==
    IF dl[download_url] = "200" THEN TextAt(root, download_url) ELSE s_empty

\* the dictionary scan_repository appends for a file item with text code
Problem(item, code) ==
    [filename |-> item.name,
     path |-> item.path,
     code |-> code,
     language |-> get_language(item.name),
     problem_number |-> extract_problem_number(item.name, item.path)]

\* excluded with the test made on the name of the item, not on its path
excluded_by_name(item) ==
    Contains(s_test, Lower(item.name)) \/ Contains(s_helper, Lower(item.name))

excluded(item) ==
    Contains(s_test, Lower(item.path)) \/ Contains(s_helper, Lower(item.path))

\* what scan_repository gives: the list it returns and the requests it made
\* in their order, or raised when iterating the contents raised
Scanned(probs, reqs) ==
    [raised |-> FALSE, problems |-> probs, requests |-> reqs]

ScanRaised(reqs) ==
    [raised |-> TRUE, problems |-> << >>, requests |-> reqs]

\* a call, then the rest of the loop unless the call raised
Then(first, rest) ==
    IF first.raised THEN first
    ELSE IF rest.raised THEN ScanRaised(first.requests \o rest.requests)
    ELSE Scanned(first.problems \o rest.problems, first.requests \o rest.requests)

RECURSIVE scan_repository(_, _, _, _)
RECURSIVE scan_items(_, _, _, _, _)

\* a variant of scan_items without the test of line 145: a file is
\* appended whatever get_file_content returned
scan_items_keeping_empty(root, net, dl, contents, k) ==
    IF k > Len(contents) THEN Scanned(<< >>, << >>)
    ELSE LET item == contents[k]
             here ==
                 IF item.type = "file" /\ is_code_file(item.name)
                 THEN IF excluded(item) THEN Scanned(<< >>, << >>)
                      ELSE LET code == get_file_content(root, dl, item.download_url)
                           IN  Scanned(<<Problem(item, code)>>, <<"fetch">>)
                 ELSE IF item.type = "dir"
                      THEN scan_repository(root, net, dl, item.path)
                      ELSE Scanned(<< >>, << >>)
         IN  IF here.raised THEN here
             ELSE Then(here, scan_items(root, net, dl, contents, k + 1))

\* the loop of scan_repository over contents[k..]
scan_items(root, net, dl, contents, k) ==
    IF k > Len(contents) THEN Scanned(<< >>, << >>)
    ELSE LET item == contents[k]
             here ==
                 IF item.type = "file" /\ is_code_file(item.name)
                 THEN IF excluded(item) THEN Scanned(<< >>, << >>)
                      ELSE LET code == get_file_content(root, dl, item.download_url)
                           IN  IF code # s_empty
                               THEN Scanned(<<Problem(item, code)>>, <<"fetch">>)
                               ELSE Scanned(<< >>, <<"fetch">>)
                 ELSE IF item.type = "dir"
                      THEN scan_repository(root, net, dl, item.path)
                      ELSE Scanned(<< >>, << >>)
         IN  IF here.raised THEN here
             ELSE Then(here, scan_items(root, net, dl, contents, k + 1))

scan_repository(root, net, dl, path) ==
    LET contents == get_repo_contents(root, net, path)
    IN  IF contents.json = "object"
        THEN ScanRaised(<<"list">>)     \* item['type'] on a key of the object
        ELSE IF contents.items = << >>
        THEN Scanned(<< >>, <<"list">>)
        ELSE Then(Scanned(<< >>, <<"list">>),
                  scan_items(root, net, dl, contents.items, 1))

----------------------------------------------------------------------------
(* SourceLocator: parse_github_url.                                        *)

s_github ==
    <<"g", "i", "t", "h", "u", "b", ".", "c", "o", "m", "/">>
s_tree ==
    <<"/", "t", "r", "e", "e", "/">>
s_git ==
    <<".", "g", "i", "t">>

\* url.rstrip('/')
RECURSIVE RStripSlash(_)
RStripSlash(s) ==
    IF s # s_empty /\ s[Len(s)] = "/"
    THEN RStripSlash(SubSeq(s, 1, Len(s) - 1))
    ELSE s

\* the position of the first '/' of s at or after k, Len(s) + 1 when none
RECURSIVE SegEnd(_, _)
SegEnd(s, k) ==
    IF k > Len(s) \/ s[k] = "/" THEN k ELSE SegEnd(s, k + 1)

\* r'github\.com/([^/]+)/([^/]+)/tree/[^/]+/(.+)' matched at position k:
\* <<owner, repo, path>>, or << >> when it does not match there
TreeMatchAt(s, k) ==
    IF ~MatchAt(s_github, s, k) THEN << >>
    ELSE LET o1 == k + Len(s_github)
             o2 == SegEnd(s, o1)            \* the '/' after the owner
             r1 == o2 + 1
             r2 == SegEnd(s, r1)            \* the '/' of '/tree/'
             b1 == r2 + Len(s_tree)
             b2 == SegEnd(s, b1)            \* the '/' after the branch
         IN  IF /\ o2 > o1 /\ o2 <= Len(s)
                /\ r2 > r1
                /\ MatchAt(s_tree, s, r2)
                /\ b2 > b1 /\ b2 < Len(s)
             THEN <<SubSeq(s, o1, o2 - 1), SubSeq(s, r1, r2 - 1),
                    SubSeq(s, b2 + 1, Len(s))>>
             ELSE << >>

\* r'github\.com/([^/]+)/([^/]+)' matched at position k: <<owner, repo>>
RepoMatchAt(s, k) ==
    IF ~MatchAt(s_github, s, k) THEN << >>
    ELSE LET o1 == k + Len(s_github)
             o2 == SegEnd(s, o1)
             r1 == o2 + 1
             r2 == SegEnd(s, r1)
         IN  IF o2 > o1 /\ o2 <= Len(s) /\ r2 > r1
             THEN <<SubSeq(s, o1, o2 - 1), SubSeq(s, r1, r2 - 1)>>
             ELSE << >>

\* parse_github_url without the replace('.git', '') of the tree branch
parse_github_url_keeping_git(github_url) ==
    LET url == RStripSlash(github_url)
        T == {k \in 1..Len(url) : TreeMatchAt(url, k) # << >>}
        R == {k \in 1..Len(url) : RepoMatchAt(url, k) # << >>}
        first(S) == CHOOSE k \in S : \A j \in S : k <= j
    IN  IF T # {}
        THEN LET m == TreeMatchAt(url, first(T))
             IN  [ok |-> TRUE, owner |-> m[1], repo |-> m[2], path |-> m[3]]
        ELSE IF R # {}
        THEN LET m == RepoMatchAt(url, first(R))
             IN  [ok |-> TRUE, owner |-> m[1],
                  repo |-> Replace(m[2], s_git, s_empty), path |-> s_empty]
        ELSE [ok |-> FALSE, owner |-> s_empty, repo |-> s_empty, path |-> s_empty]

\* parse_github_url: ok is FALSE when it raises ValueError
parse_github_url(github_url) ==
    LET url == RStripSlash(github_url)
        T == {k \in 1..Len(url) : TreeMatchAt(url, k) # << >>}
        R == {k \in 1..Len(url) : RepoMatchAt(url, k) # << >>}
        first(S) == CHOOSE k \in S : \A j \in S : k <= j
    IN  IF T # {}
        THEN LET m == TreeMatchAt(url, first(T))
             IN  [ok |-> TRUE, owner |-> m[1],
                  repo |-> Replace(m[2], s_git, s_empty), path |-> m[3]]
        ELSE IF R # {}
        THEN LET m == RepoMatchAt(url, first(R))
             IN  [ok |-> TRUE, owner |-> m[1],
                  repo |-> Replace(m[2], s_git, s_empty), path |-> s_empty]
        ELSE [ok |-> FALSE, owner |-> s_empty, repo |-> s_empty, path |-> s_empty]

----------------------------------------------------------------------------
(* BatchAnnotator: the replies of the text-generation call,                *)
(* parse_gemini_response and the batch loop of analyze_with_gemini.        *)
(* A dictionary is a function from its keys; d.get(k, default) is Get.     *)

s_pending ==
    <<"A", "n", "a", "l", "y", "s", "i", "s", " ", "p", "e", "n", "d", "i", "n", "g">>
s_failed ==
    <<"A", "n", "a", "l", "y", "s", "i", "s", " ", "f", "a", "i", "l", "e", "d">>

\* None: a one-element sequence whose element is no character, so that it
\* differs from every string, the empty string included
None ==
    <<"None">>

Get(d, key, default) ==
    IF key \in DOMAIN d THEN d[key] ELSE default

\* a decoded array entry that is not a JSON object (a number, a string, null)
NonObject ==
    [nonobject |-> TRUE]

IsDict(e) ==
    "nonobject" \notin DOMAIN e

\* an entry with the nine keys the prompt asks for (it asks for no language)
EntryAsked ==
    [problem_number |-> <<"1">>,
     problem_title |-> <<"T", "w", "o", " ", "S", "u", "m">>,
     difficulty |-> <<"E", "a", "s", "y">>,
     time_complexity |-> <<"O", "(", "n", ")">>,
     space_complexity |-> <<"O", "(", "n", ")">>,
     algorithms |-> <<<<"H", "a", "s", "h", " ", "T", "a", "b", "l", "e">>>>,
     data_structures |-> <<<<"A", "r", "r", "a", "y">>>>,
     explanation |-> <<"O", "n", "e", " ", "p", "a", "s", "s", " ", "w", "i", "t", "h", " ", "a", " ", "h", "a", "s", "h", " ", "m", "a", "p">>,
     tags |-> <<<<"A", "r", "r", "a", "y">>, <<"H", "a", "s", "h", " ", "T", "a", "b", "l", "e">>>>]

\* an entry that also carries a language, a code and a path of its own
EntryOwn ==
    [problem_number |-> <<"1">>,
     problem_title |-> <<"T", "w", "o", " ", "S", "u", "m">>,
     difficulty |-> <<"M", "e", "d", "i", "u", "m">>,
     time_complexity |-> <<"O", "(", "n", ")">>,
     space_complexity |-> <<"O", "(", "n", ")">>,
     algorithms |-> << >>,
     data_structures |-> << >>,
     explanation |-> <<"S", "o", "r", "t", ",", " ", "t", "h", "e", "n", " ", "t", "w", "o", " ", "p", "o", "i", "n", "t", "e", "r", "s">>,
     tags |-> << >>,
     language |-> <<"P", "y", "t", "h", "o", "n", "3">>,
     code |-> <<"p", "r", "i", "n", "t", "(", "1", ")">>,
     path |-> <<"x", "/", "y", ".", "p", "y">>]

\* an entry that repeats the prompt's placeholder as its problem number
EntryLong ==
    [problem_number |-> <<"e", "x", "t", "r", "a", "c", "t", " ", "t", "h", "e", " ", "n", "u", "m", "b", "e", "r">>,
     difficulty |-> <<"E", "a", "s", "y">>]

\* the reply of call_gemini_api: it raised, or it returned a text.  Of a
\* text the model keeps what parse_gemini_response reads: whether it has a
\* '[' and a ']', whether response[start:end] decodes, and the decoded array
Raised ==
    [kind |-> "raise"]

Text(open, close, decodes, value) ==
    [kind |-> "text", open |-> open, close |-> close,
     decodes |-> decodes, value |-> value]

\* the greatest number of entries of a decoded array
MaxReplyLen ==
    2

\* the replies: the call raised, a text with no array in it, a text with
\* an array of at most MaxReplyLen entries
Replies ==
    {Raised}
    \cup { Text(FALSE, FALSE, FALSE, << >>), Text(TRUE, FALSE, FALSE, << >>),
           Text(FALSE, TRUE, FALSE, << >>), Text(TRUE, TRUE, FALSE, << >>) }
    \cup { Text(TRUE, TRUE, TRUE, v) :
             v \in UNION { [1..n -> {EntryAsked, EntryOwn, EntryLong, NonObject}] : n \in 0..MaxReplyLen } }

\* the entry after the loop body of parse_gemini_response ran on it at
\* (0-based) index k - 1
Merged(analysis, original) ==
    [key \in DOMAIN analysis \cup {"code", "path", "language"} |->
        IF key = "code" THEN original.code
        ELSE IF key = "path" THEN original.path
        ELSE IF key = "language"
             THEN IF "language" \in DOMAIN analysis
                  THEN analysis.language ELSE original.language
             ELSE analysis[key]]

\* parse_gemini_response: << >> is the empty list it returns on every failure
parse_gemini_response(response, original_problems) ==
    IF ~response.open \/ ~response.close
    THEN << >>
    ELSE IF ~response.decodes
    THEN << >>
    ELSE LET analyzed == response.value
         IN  IF \E k \in 1..Len(analyzed) :
                    k <= Len(original_problems) /\ ~IsDict(analyzed[k])
             THEN << >>     \* item assignment raised TypeError
             ELSE [k \in 1..Len(analyzed) |->
                      IF k <= Len(original_problems)
                      THEN Merged(analyzed[k], original_problems[k])
                      ELSE analyzed[k]]

\* the record appended when the reply of a batch could not be parsed
PendingRecord(p) ==
    [problem_number |-> p.problem_number,
     problem_title |-> Strip(Replace(Replace(p.filename, Lower(p.language), s_empty),
                                     <<".">>, <<" ">>)),
     difficulty |-> s_Unknown,
     language |-> p.language,
     time_complexity |-> s_Unknown,
     space_complexity |-> s_Unknown,
     algorithms |-> << >>,
     data_structures |-> << >>,
     explanation |-> s_pending,
     tags |-> << >>,
     code |-> p.code,
     path |-> p.path]

\* the record appended when the call of a batch raised
FailedRecord(p) ==
    [problem_number |-> p.problem_number,
     problem_title |-> p.filename,
     difficulty |-> s_Unknown,
     language |-> p.language,
     time_complexity |-> s_Unknown,
     space_complexity |-> s_Unknown,
     algorithms |-> << >>,
     data_structures |-> << >>,
     explanation |-> s_failed,
     tags |-> << >>,
     code |-> p.code,
     path |-> p.path]

batch_size ==
    3

\* problems[i:i + batch_size] for a 0-based i
Batch(probs, i) ==
    SubSeq(probs, i + 1, IF i + batch_size < Len(probs) THEN i + batch_size ELSE Len(probs))

\* analyze_batch with the handler of the except branch copied into the
\* branch for an unparsable reply
analyze_batch_same_handler(batch, response) ==
    IF response.kind = "raise"
    THEN [k \in 1..Len(batch) |-> FailedRecord(batch[k])]
    ELSE LET analyzed == parse_gemini_response(response, batch)
         IN  IF analyzed # << >>
             THEN analyzed
             ELSE [k \in 1..Len(batch) |-> FailedRecord(batch[k])]

\* what one iteration of the loop of analyze_with_gemini appends for a batch
analyze_batch(batch, response) ==
    IF response.kind = "raise"
    THEN [k \in 1..Len(batch) |-> FailedRecord(batch[k])]
    ELSE LET analyzed == parse_gemini_response(response, batch)
         IN  IF analyzed # << >>
             THEN analyzed
             ELSE [k \in 1..Len(batch) |-> PendingRecord(batch[k])]

----------------------------------------------------------------------------
(* Upserter: the leetcode_solutions table of setup_database and the        *)
(* statement and loop of store_in_database.  The table is the sequence of  *)
(* its rows in insertion order.                                            *)

u_alice ==
    <<"a", "@", "x", ".", "i", "o">>
u_bob ==
    <<"b", "@", "x", ".", "i", "o">>

\* the VARCHAR(n) columns of leetcode_solutions and their widths
VarcharWidth ==
    [problem_number |-> 10, problem_title |-> 255, difficulty |-> 20,
     language |-> 50, time_complexity |-> 50, space_complexity |-> 50,
     file_path |-> 500, user_email |-> 255]

\* the columns of UNIQUE(problem_number, language, file_path, user_email)
KeyColumns ==
    {"problem_number", "language", "file_path", "user_email"}

\* the columns ON CONFLICT ... DO UPDATE SET assigns
UpdatedColumns ==
    {"problem_title", "difficulty", "time_complexity", "space_complexity",
     "algorithms", "data_structures", "explanation", "tags", "code"}

\* the parameter tuple of the INSERT, by column
Values(sol, user_email) ==
    [problem_number |-> Get(sol, "problem_number", s_Unknown),
     problem_title |-> Get(sol, "problem_title", s_Unknown),
     difficulty |-> Get(sol, "difficulty", s_Unknown),
     language |-> Get(sol, "language", s_Unknown),
     time_complexity |-> Get(sol, "time_complexity", s_Unknown),
     space_complexity |-> Get(sol, "space_complexity", s_Unknown),
     algorithms |-> Get(sol, "algorithms", << >>),
     data_structures |-> Get(sol, "data_structures", << >>),
     explanation |-> Get(sol, "explanation", s_empty),
     tags |-> Get(sol, "tags", << >>),
     code |-> Get(sol, "code", s_empty),
     file_path |-> Get(sol, "path", s_empty),
     user_email |-> user_email]

\* a value does not fit its VARCHAR column: the statement fails
TooLong(vals) ==
    \E c \in DOMAIN VarcharWidth :
        vals[c] # None /\ Len(vals[c]) > VarcharWidth[c]

\* two rows collide on the unique constraint: equal key columns, none of
\* them NULL (a NULL is distinct from every value, and from another NULL)
Conflicts(row, vals) ==
    /\ \A c \in KeyColumns : row[c] = vals[c]
    /\ \A c \in KeyColumns : vals[c] # None

\* INSERT ... ON CONFLICT ... DO UPDATE ... RETURNING (xmax = 0), on a table
\* inside a transaction that began at time now; id is the next value of the
\* SERIAL sequence
upsert(table, vals, id, now) ==
    IF \E k \in 1..Len(table) : Conflicts(table[k], vals)
    THEN [table |-> [k \in 1..Len(table) |->
                        IF Conflicts(table[k], vals)
                        THEN [c \in DOMAIN table[k] |->
                                 IF c \in UpdatedColumns THEN vals[c] ELSE table[k][c]]
                        ELSE table[k]],
          inserted |-> FALSE]
    ELSE [table |-> Append(table,
                        [c \in DOMAIN vals \cup {"id", "created_at"} |->
                            IF c = "id" THEN id
                            ELSE IF c = "created_at" THEN now
                            ELSE vals[c]]),
          inserted |-> TRUE]

\* the state of the loop of store_in_database: the table as the open
\* transaction sees it, whether the transaction is aborted, the SERIAL
\* sequence and the two counters
RECURSIVE store_loop(_, _, _, _, _)
store_loop(st, solutions, k, user_email, now) ==
    IF k > Len(solutions) THEN st
    ELSE LET sol == solutions[k]
             next ==
                 IF ~IsDict(sol)
                 THEN st                    \* sol.get raised: nothing was sent
                 ELSE IF st.aborted
                 THEN st                    \* InFailedSqlTransaction
                 ELSE IF TooLong(Values(sol, user_email))
                 THEN [st EXCEPT !.aborted = TRUE]
                 ELSE LET r == upsert(st.table, Values(sol, user_email), st.seq, now)
                      IN  [table |-> r.table,
                           aborted |-> FALSE,
                           seq |-> st.seq + 1,
                           inserted |-> st.inserted + (IF r.inserted THEN 1 ELSE 0),
                           updated |-> st.updated + (IF r.inserted THEN 0 ELSE 1)]
         IN  store_loop(next, solutions, k + 1, user_email, now)

\* a variant of store_in_database that raises when a record could not be
\* written, instead of skipping the record
store_in_database_failing_fast(db, seq, solutions, user_email, now, connects) ==
    IF ~connects
    THEN [raised |-> TRUE, table |-> db, seq |-> seq, inserted |-> 0, updated |-> 0]
    ELSE LET st == store_loop([table |-> db, aborted |-> FALSE, seq |-> seq,
                               inserted |-> 0, updated |-> 0],
                              solutions, 1, user_email, now)
         IN  [raised |-> st.aborted \/ \E k \in 1..Len(solutions) : ~IsDict(solutions[k]),
              table |-> IF st.aborted THEN db ELSE st.table,
              seq |-> st.seq,
              inserted |-> st.inserted,
              updated |-> st.updated]

\* store_in_database on the committed table db: the committed table, the
\* sequence and the counters it prints, or raised when connecting failed.
\* commit() of an aborted transaction rolls it back and raises nothing
store_in_database(db, seq, solutions, user_email, now, connects) ==
    IF ~connects
    THEN [raised |-> TRUE, table |-> db, seq |-> seq, inserted |-> 0, updated |-> 0]
    ELSE LET st == store_loop([table |-> db, aborted |-> FALSE, seq |-> seq,
                               inserted |-> 0, updated |-> 0],
                              solutions, 1, user_email, now)
         IN  [raised |-> FALSE,
              table |-> IF st.aborted THEN db ELSE st.table,
              seq |-> st.seq,
              inserted |-> st.inserted,
              updated |-> st.updated]

----------------------------------------------------------------------------
(* The read side: get_user_solutions of the API server.                    *)

\* the columns of the SELECT of get_user_solutions
SelectedColumns ==
    {"id", "problem_number", "problem_title", "difficulty", "language",
     "time_complexity", "space_complexity", "algorithms", "data_structures",
     "explanation", "tags", "created_at"}

\* a variant of get_user_solutions whose SELECT has no WHERE clause
get_user_solutions_of_everyone(table, email, limit, offset) ==
    LET rows == 1..Len(table)
        n == Cardinality(rows)
        orders == { f \in [1..n -> rows] :
                      /\ \A a, b \in 1..n : a # b => f[a] # f[b]
                      /\ \A a, b \in 1..n :
                            a < b => table[f[a]].created_at >= table[f[b]].created_at }
        last == IF offset + limit < n THEN offset + limit ELSE n
    IN  { [email |-> email, total |-> n, limit |-> limit, offset |-> offset,
           solutions |-> [k \in 1..(IF last > offset THEN last - offset ELSE 0) |->
                            [c \in SelectedColumns |-> table[f[offset + k]][c]]]] :
          f \in orders }

\* get_user_solutions(email, limit, offset) on the committed table: the
\* responses it can give.  WHERE user_email = email selects no row whose
\* user_email is NULL; ORDER BY created_at DESC leaves the order of rows of
\* one transaction open
get_user_solutions(table, email, limit, offset) ==
    LET rows == { k \in 1..Len(table) :
                    table[k].user_email # None /\ table[k].user_email = email }
        n == Cardinality(rows)
        orders == { f \in [1..n -> rows] :
                      /\ \A a, b \in 1..n : a # b => f[a] # f[b]
                      /\ \A a, b \in 1..n :
                            a < b => table[f[a]].created_at >= table[f[b]].created_at }
        last == IF offset + limit < n THEN offset + limit ELSE n
    IN  { [email |-> email, total |-> n, limit |-> limit, offset |-> offset,
           solutions |-> [k \in 1..(IF last > offset THEN last - offset ELSE 0) |->
                            [c \in SelectedColumns |-> table[f[offset + k]][c]]]] :
          f \in orders }

----------------------------------------------------------------------------
(* The state of one run of process_repository, of the store, and of the    *)
(* environment the run talks to.                                           *)

VARIABLES
    root,           \* the remote repository tree
    net,            \* outcome of each request to the contents API, by path
    dl,             \* outcome of each download, by url
    github_url,     \* argument of process_repository
    user_email,     \* argument of process_repository and store_in_database
    brevo_api_key,  \* whether the system was built with an email API key
    pc,             \* position in process_repository
    located,        \* what parse_github_url returned
    problems,       \* the list scan_repository returned
    i,              \* loop variable of analyze_with_gemini
    all_analyzed,   \* the list analyze_with_gemini builds and returns
    response,       \* the last reply of call_gemini_api
    appended,       \* the records the last batch added to all_analyzed
    db,             \* the committed rows of leetcode_solutions
    seq,            \* next value of the SERIAL sequence of the table
    now,            \* CURRENT_TIMESTAMP of the next transaction
    calls,          \* the calls of store_in_database so far
    fetched,        \* the response of get_user_solutions to the last request
                    \* made since the last write
    tables,         \* whether setup_database has created the tables
    users,          \* total_problems_analyzed of each row of users, by email
    mails,          \* the welcome emails sent
    log,            \* the external calls made so far, in order, each with
                    \* the stage the run was in
    printed,        \* the messages printed so far, in order
    stages,         \* the stages the run has entered, in order
    errors,         \* the errors that happened during the run
    result,         \* how process_repository ended
    today,          \* CURRENT_DATE, date.today()
    sent_date,      \* last_problem_sent_date of each active row of users
    outbox,         \* the emails the schedulers handed to the email API and
                    \* that it accepted, in order
    schedule,       \* the rows of course_email_schedule of active subscriptions
    subscription,   \* the progress of the row of course_subscriptions of each
                    \* subscribed user, with its rows of user_course_progress
    procs,          \* the child processes of main(), by name
    sup             \* position and exit status of main()

envVars ==
    <<root, net, dl>>

argVars ==
    <<github_url, user_email, brevo_api_key>>

crawlVars ==
    <<located, problems>>

annVars ==
    <<i, all_analyzed, response, appended>>

dbVars ==
    <<db, seq, now, calls, fetched>>

sideVars ==
    <<tables, users, mails>>

runVars ==
    <<log, printed, stages, errors, result>>

serviceVars ==
    <<today, sent_date, outbox, schedule, subscription, procs, sup>>

vars ==
    <<envVars, argVars, pc, crawlVars, annVars, dbVars, sideVars, runVars,
      serviceVars>>

\* the values the variables have before anything ran
NoEnv ==
    /\ root = << >>
    /\ net = << >>
    /\ dl = << >>

NoArgs ==
    /\ github_url = s_empty
    /\ user_email = None
    /\ brevo_api_key = FALSE

NoCrawl ==
    /\ located = [ok |-> FALSE, owner |-> s_empty, repo |-> s_empty, path |-> s_empty]
    /\ problems = << >>

NoAnnotation ==
    /\ i = 0
    /\ all_analyzed = << >>
    /\ response = Raised
    /\ appended = << >>

\* no request of get_user_solutions was made
NoRead ==
    [email |-> None, total |-> 0, limit |-> 0, offset |-> 0, solutions |-> << >>]

EmptyStore ==
    /\ db = << >>
    /\ seq = 1
    /\ now = 1
    /\ calls = << >>
    /\ fetched = NoRead

NoSideEffects ==
    /\ tables = FALSE
    /\ users = << >>
    /\ mails = << >>

FreshRun ==
    /\ log = << >>
    /\ printed = << >>
    /\ stages = <<"Start">>
    /\ errors = {}
    /\ result = "running"

\* the services before anything ran: two active users that no daily email
\* was sent to (last_problem_sent_date NULL, here 0), three pending rows of
\* course_email_schedule of active subscriptions (schedule[id] is the row
\* of that id), no course subscription, and main() at line 158: no child
\* process created, no child seen dead, no terminate() sent, no exit
\* status yet (-1)
NoServices ==
    /\ today = 1
    /\ sent_date = [e \in {u_alice, u_bob} |-> 0]
    /\ outbox = << >>
    /\ schedule =
          <<[user_email |-> u_alice, scheduled_date |-> 1, status |-> "pending"],
            [user_email |-> u_alice, scheduled_date |-> 1, status |-> "pending"],
            [user_email |-> u_bob, scheduled_date |-> 2, status |-> "pending"]>>
    /\ subscription = << >>
    /\ procs = << >>
    /\ sup = [pc |-> "start", i |-> 1, observed |-> FALSE, terminated |-> {},
              status |-> -1]

\* no run of process_repository, an empty store, and the services before
\* anything ran
Idle ==
    /\ NoEnv
    /\ NoArgs
    /\ pc = "idle"
    /\ NoCrawl
    /\ NoAnnotation
    /\ EmptyStore
    /\ NoSideEffects
    /\ FreshRun
    /\ NoServices

\* the stage the run is in
stage ==
    stages[Len(stages)]

Enter(s) ==
    stages' = Append(stages, s)

\* the entries of log for calls made in the current stage
Did(ops) ==
    [k \in 1..Len(ops) |-> [op |-> ops[k], at |-> stage]]

\* process_repository prints message and returns at an early return statement
Abort(message) ==
    /\ printed' = Append(printed, message)
    /\ Enter("Failed")
    /\ result' = "None"
    /\ pc' = "returned"

----------------------------------------------------------------------------
(* process_repository, step by step.                                       *)

\* lines 490-494: test_connection
TestConnection(reachable) ==
    /\ pc = "test_connection"
    /\ log' = log \o Did(<<"test_connection">>)
    /\ errors' = errors \cup (IF reachable THEN {} ELSE {"connection"})
    /\ IF reachable
       THEN /\ pc' = "locate"
            /\ UNCHANGED <<printed, stages, result>>
       ELSE Abort("Connection test failed")
    /\ UNCHANGED <<serviceVars, envVars, argVars, crawlVars, annVars, dbVars, sideVars>>

\* a variant of Locate with parse_github_url outside the try statement's
\* reach: the run goes on to the crawl whatever the url
Locate_unchecked ==
    /\ pc = "locate"
    /\ located' = parse_github_url(github_url)
    /\ errors' = errors \cup (IF located'.ok THEN {} ELSE {"reference"})
    /\ pc' = "crawl"
    /\ Enter("Located")
    /\ UNCHANGED <<printed, result>>
    /\ UNCHANGED <<serviceVars, envVars, argVars, problems, annVars, dbVars, sideVars, log>>

\* line 501: parse_github_url; ValueError is caught at line 514
Locate ==
    /\ pc = "locate"
    /\ located' = parse_github_url(github_url)
    /\ errors' = errors \cup (IF located'.ok THEN {} ELSE {"reference"})
    /\ IF located'.ok
       THEN /\ pc' = "crawl"
            /\ Enter("Located")
            /\ UNCHANGED <<printed, result>>
       ELSE Abort("GitHub extraction error")
    /\ UNCHANGED <<serviceVars, envVars, argVars, problems, annVars, dbVars, sideVars, log>>

\* a variant of Crawl without the test of lines 507-509: a run that found
\* no file goes on to the annotation
Crawl_not_stopping ==
    /\ pc = "crawl"
    /\ LET r == scan_repository(root, net, dl, located.path)
       IN  /\ log' = log \o Did(r.requests)
           /\ problems' = r.problems
           /\ errors' = errors \cup
                  (IF get_repo_contents(root, net, located.path).json = "object"
                   THEN {"crawl"} ELSE {})
           /\ IF r.raised
              THEN Abort("GitHub extraction error")
              ELSE /\ pc' = "annotate"
                   /\ stages' = stages \o <<"Crawled", "Classified">>
                   /\ printed' = Append(printed, "Found code files")
                   /\ UNCHANGED result
    /\ UNCHANGED <<serviceVars, envVars, argVars, located, annVars, dbVars, sideVars>>

\* lines 506-516: scan_repository, then the test for an empty result
Crawl ==
    /\ pc = "crawl"
    /\ LET r == scan_repository(root, net, dl, located.path)
       IN  /\ log' = log \o Did(r.requests)
           /\ problems' = r.problems
           /\ errors' = errors \cup
                  (IF get_repo_contents(root, net, located.path).json = "object"
                   THEN {"crawl"} ELSE {})
           /\ IF r.raised
              THEN Abort("GitHub extraction error")
              ELSE IF r.problems = << >>
              THEN Abort("No solutions found")
              ELSE /\ pc' = "annotate"
                   /\ stages' = stages \o <<"Crawled", "Classified">>
                   /\ printed' = Append(printed, "Found code files")
                   /\ UNCHANGED result
    /\ UNCHANGED <<serviceVars, envVars, argVars, located, annVars, dbVars, sideVars>>

\* a variant of AnalyzeBatch without the except branch of lines 230-246:
\* the exception of call_gemini_api leaves analyze_with_gemini, and
\* process_repository returns at line 527
AnalyzeBatch_raising(reply) ==
    /\ pc = "annotate"
    /\ i < Len(problems)
    /\ log' = log \o Did(<<"generate">> \o
                  (IF reply.kind # "raise" /\ i + batch_size < Len(problems)
                   THEN <<"sleep">> ELSE << >>))
    /\ response' = reply
    /\ errors' = errors \cup
           (IF reply.kind = "raise" THEN {"generation"}
            ELSE IF parse_gemini_response(reply, Batch(problems, i)) = << >>
                 THEN {"unparsable"} ELSE {})
    /\ IF reply.kind = "raise"
       THEN /\ Abort("Gemini analysis error")
            /\ UNCHANGED <<i, all_analyzed, appended>>
       ELSE /\ appended' = analyze_batch(Batch(problems, i), reply)
            /\ all_analyzed' = all_analyzed \o appended'
            /\ i' = i + batch_size
            /\ UNCHANGED <<pc, printed, stages, result>>
    /\ UNCHANGED <<serviceVars, envVars, argVars, crawlVars, dbVars, sideVars>>

\* a variant of AnalyzeBatch that waits after every batch, the last one
\* included
AnalyzeBatch_always_waiting(reply) ==
    /\ pc = "annotate"
    /\ i < Len(problems)
    /\ LET batch == Batch(problems, i)
           recs == analyze_batch(batch, reply)
       IN  /\ response' = reply
           /\ appended' = recs
           /\ all_analyzed' = all_analyzed \o recs
           /\ errors' = errors \cup
                  (IF reply.kind = "raise" THEN {"generation"}
                   ELSE IF parse_gemini_response(reply, batch) = << >>
                        THEN {"unparsable"} ELSE {})
    /\ log' = log \o Did(<<"generate", "sleep">>)
    /\ i' = i + batch_size
    /\ UNCHANGED <<serviceVars, envVars, argVars, pc, crawlVars, dbVars, sideVars,
                   printed, stages, result>>

\* lines 198-250: one iteration of the loop of analyze_with_gemini, reply
\* being what call_gemini_api does for the batch
AnalyzeBatch(reply) ==
    /\ pc = "annotate"
    /\ i < Len(problems)
    /\ LET batch == Batch(problems, i)
           recs == analyze_batch(batch, reply)
       IN  /\ response' = reply
           /\ appended' = recs
           /\ all_analyzed' = all_analyzed \o recs
           /\ errors' = errors \cup
                  (IF reply.kind = "raise" THEN {"generation"}
                   ELSE IF parse_gemini_response(reply, batch) = << >>
                        THEN {"unparsable"} ELSE {})
    /\ log' = log \o Did(<<"generate">> \o
                  (IF i + batch_size < Len(problems) THEN <<"sleep">> ELSE << >>))
    /\ i' = i + batch_size
    /\ UNCHANGED <<serviceVars, envVars, argVars, pc, crawlVars, dbVars, sideVars,
                   printed, stages, result>>

\* lines 252 and 524: the loop is over, analyze_with_gemini returns
AnalyzeReturn ==
    /\ pc = "annotate"
    /\ i >= Len(problems)
    /\ pc' = "setup_database"
    /\ Enter("Annotated")
    /\ printed' = Append(printed, "Analyzed solutions total")
    /\ UNCHANGED <<serviceVars, envVars, argVars, crawlVars, annVars, dbVars, sideVars,
                   log, errors, result>>

\* lines 533-537: setup_database, which raises when it cannot connect
SetupDatabase(connects) ==
    /\ pc = "setup_database"
    /\ log' = log \o Did(<<"setup_database">>)
    /\ errors' = errors \cup (IF connects THEN {} ELSE {"database_setup"})
    /\ IF connects
       THEN /\ tables' = TRUE
            /\ pc' = "store"
            /\ UNCHANGED <<printed, stages, result>>
       ELSE /\ Abort("Database setup error")
            /\ UNCHANGED tables
    /\ UNCHANGED <<serviceVars, envVars, argVars, crawlVars, annVars, dbVars, users, mails>>

\* the entry of calls for a call of store_in_database
Call(solutions, email, before, r) ==
    [solutions |-> solutions, user_email |-> email, before |-> before,
     raised |-> r.raised, inserted |-> r.inserted, updated |-> r.updated]

\* the records of a list whose write fails: a value too long for its column
FailingRecords(solutions, email) ==
    { k \in 1..Len(solutions) :
        IsDict(solutions[k]) /\ TooLong(Values(solutions[k], email)) }

\* lines 543-547: store_in_database, which raises when it cannot connect
Store(connects) ==
    /\ pc = "store"
    /\ log' = log \o Did(<<"store">>)
    /\ errors' = errors
          \cup (IF connects THEN {} ELSE {"database_connect"})
          \cup (IF connects /\ \E k \in 1..Len(all_analyzed) :
                                  \/ ~IsDict(all_analyzed[k])
                                  \/ k \in FailingRecords(all_analyzed, user_email)
                THEN {"record"} ELSE {})
    /\ LET r == store_in_database(db, seq, all_analyzed, user_email, now, connects)
       IN  /\ db' = r.table
           /\ seq' = r.seq
           /\ now' = now + 1
           /\ calls' = Append(calls, Call(all_analyzed, user_email, db, r))
           /\ fetched' = NoRead
           /\ IF r.raised
              THEN Abort("Database storage error")
              ELSE /\ pc' = "register"
                   /\ Enter("Stored")
                   /\ printed' = Append(printed, "Database operation complete")
                   /\ UNCHANGED result
    /\ UNCHANGED <<serviceVars, envVars, argVars, crawlVars, annVars, sideVars>>

\* INSERT INTO users ... ON CONFLICT (email) DO UPDATE of register_user
register_user(table, email, total_problems) ==
    [e \in DOMAIN table \cup {email} |->
        IF e # email THEN table[e]
        ELSE IF email \in DOMAIN table
             THEN table[email] + total_problems
             ELSE total_problems]

\* lines 553-575: register_user and the welcome email, each of which may
\* fail without ending the run
Register(registers, sends) ==
    /\ pc = "register"
    /\ IF user_email # None /\ user_email # s_empty /\ brevo_api_key
       THEN /\ users' = IF registers
                        THEN register_user(users, user_email, Len(all_analyzed))
                        ELSE users
            /\ mails' = IF sends THEN Append(mails, user_email) ELSE mails
            /\ log' = log \o Did(<<"register_user", "send_welcome_email">>)
            /\ errors' = errors \cup (IF registers THEN {} ELSE {"registration"})
                                \cup (IF sends THEN {} ELSE {"email"})
       ELSE /\ registers /\ sends
            /\ UNCHANGED <<users, mails, log, errors>>
    /\ pc' = "summary"
    /\ UNCHANGED <<serviceVars, envVars, argVars, crawlVars, annVars, dbVars, tables,
                   printed, stages, result>>

\* a variant of Summary in which line 582 comes before line 581: the total
\* is not printed when a record is no dictionary
Summary_languages_first ==
    /\ pc = "summary"
    /\ Enter("Done")
    /\ IF \E k \in 1..Len(all_analyzed) : ~IsDict(all_analyzed[k])
       THEN /\ printed' = Append(printed, "PROCESS COMPLETE")
            /\ result' = "raised"
            /\ pc' = "returned"
       ELSE /\ printed' = printed \o <<"PROCESS COMPLETE", "Total solutions processed">>
            /\ pc' = "recommend"
            /\ UNCHANGED result
    /\ UNCHANGED <<serviceVars, envVars, argVars, crawlVars, annVars, dbVars, sideVars,
                   log, errors>>

\* lines 577-585: the summary.  Line 581 prints the total; line 582 calls
\* s.get on every record and raises when one of them is no dictionary
Summary ==
    /\ pc = "summary"
    /\ printed' = printed \o <<"PROCESS COMPLETE", "Total solutions processed">>
    /\ Enter("Done")
    /\ IF \E k \in 1..Len(all_analyzed) : ~IsDict(all_analyzed[k])
       THEN /\ result' = "raised"
            /\ pc' = "returned"
       ELSE /\ pc' = "recommend"
            /\ UNCHANGED result
    /\ UNCHANGED <<serviceVars, envVars, argVars, crawlVars, annVars, dbVars, sideVars,
                   log, errors>>

\* a variant of Recommend that calls call_gemini_api a second time when
\* the first call failed
Recommend_retrying(generated, answer) ==
    /\ pc = "recommend"
    /\ log' = log \o Did((IF generated THEN <<"generate">>
                                       ELSE <<"generate", "generate">>)
                  \o <<"input">>
                  \o (IF answer = "y" THEN <<"save_recommendation">> ELSE << >>))
    /\ errors' = errors \cup (IF generated THEN {} ELSE {"recommendation"})
    /\ pc' = "next_steps"
    /\ UNCHANGED <<serviceVars, envVars, argVars, crawlVars, annVars, dbVars, sideVars,
                   printed, stages, result>>

\* lines 591-599: get_personalized_recommendation calls call_gemini_api once
\* and falls back to a default; then input() asks whether to save it.
\* answer is "y", "n" or "eof" (input raised)
Recommend(generated, answer) ==
    /\ pc = "recommend"
    /\ log' = log \o Did(<<"generate", "input">>
                  \o (IF answer = "y" THEN <<"save_recommendation">> ELSE << >>))
    /\ errors' = errors \cup (IF generated THEN {} ELSE {"recommendation"})
    /\ pc' = "next_steps"
    /\ UNCHANGED <<serviceVars, envVars, argVars, crawlVars, annVars, dbVars, sideVars,
                   printed, stages, result>>

\* lines 601-606: the last prints; the function ends without a return value
Return ==
    /\ pc = "next_steps"
    /\ printed' = Append(printed, "Next steps")
    /\ result' = "None"
    /\ pc' = "returned"
    /\ UNCHANGED <<serviceVars, envVars, argVars, crawlVars, annVars, dbVars, sideVars,
                   log, stages, errors>>

----------------------------------------------------------------------------
(* Specification of the crawl: scan_repository from a start path of a      *)
(* repository, under every outcome of its requests within MaxFaults.       *)

\* a crawl under every outcome of its requests within MaxFaults.  The
\* repositories are the empty one, the scenario, two source files at the
\* root, directories and files side by side, and one per pool entry; the
\* start paths are the root, a directory or a file of the scenario, whether
\* or not the repository has it
InitScan ==
    /\ root \in {<< >>, ScenarioRoot, PairRoot,
                  <<DirNode(n_lib, <<DirNode(n_contest, <<FileNode(n_3sum, t_code)>>),
                                     FileNode(n_v12345, t_code)>>),
                    FileNode(n_sort, t_code),
                    FileNode(n_test_utils, t_code),
                    DirNode(n_problem42, <<FileNode(n_blank, s_empty)>>)>>}
                 \cup { <<n>> : n \in NodePool }
    /\ \E F \in FaultSets(root) :
          /\ net \in NetOutcomes(root, F)
          /\ dl \in DlOutcomes(root, F)
    /\ NoArgs
    /\ pc = "crawl"
    /\ \E start \in {s_empty, n_15, n_two_sum} :
          located = [ok |-> TRUE, owner |-> s_empty, repo |-> s_empty, path |-> start]
    /\ problems = << >>
    /\ NoAnnotation
    /\ EmptyStore
    /\ NoSideEffects
    /\ FreshRun
    /\ NoServices

SpecScan ==
    InitScan /\ [][Crawl]_vars

----------------------------------------------------------------------------
(* Specification of the annotator: analyze_with_gemini on a list of files, *)
(* under every reply of the text-generation call.                          *)

\* the files the lists are cut from, as scan_repository yields them
AnnotateFiles ==
    <<Problem(Item(s_empty, FileNode(n_two_sum, t_code)), t_code),
      Problem(Item(n_15, FileNode(n_longest, t_code)), t_code),
      Problem(Item(n_problem42, FileNode(n_sol, t_code)), t_code),
      Problem(Item(n_lib, FileNode(n_v12345, t_code)), t_code),
      Problem(Item(s_empty, FileNode(n_add, t_code)), t_code),
      Problem(Item(s_empty, FileNode(<<"6", "-", "z", "i", "g", "z", "a", "g", ".", "r", "s">>, t_code)), t_code),
      Problem(Item(s_empty, FileNode(n_sort, t_code)), t_code)>>

\* the greatest number of files of a list
MaxFiles ==
    4

\* annotation of every run of consecutive files of at most MaxFiles files
InitAnalyze ==
    /\ NoEnv
    /\ NoArgs
    /\ pc = "annotate"
    /\ located = [ok |-> TRUE, owner |-> s_empty, repo |-> s_empty, path |-> s_empty]
    /\ problems \in { p \in { SubSeq(AnnotateFiles, a, b) :
                                 a \in 1..Len(AnnotateFiles),
                                 b \in 0..Len(AnnotateFiles) } : Len(p) <= MaxFiles }
    /\ NoAnnotation
    /\ EmptyStore
    /\ NoSideEffects
    /\ FreshRun
    /\ NoServices

SpecAnalyze ==
    /\ InitAnalyze
    /\ [][\/ \E reply \in Replies : AnalyzeBatch(reply)
          \/ AnalyzeReturn]_vars

----------------------------------------------------------------------------
(* Specification of the store: calls of store_in_database, one after the   *)
(* other, on a table that starts empty.                                    *)

\* records as analyze_with_gemini returns them
SolA ==
    Merged(EntryAsked, AnnotateFiles[1])

\* the key of SolA, other values in the columns that are not key columns
SolA2 ==
    [Merged(EntryOwn, AnnotateFiles[1]) EXCEPT !.language = SolA.language]

SolB ==
    Merged(EntryAsked, AnnotateFiles[2])

SolLong ==
    Merged(EntryLong, AnnotateFiles[3])

StoreLists ==
    { << >>, <<SolA>>, <<SolA2>>, <<SolA, SolB>>, <<SolA, SolA2>>,
      <<SolB, SolLong, SolA>>, <<SolB, NonObject>> }

Owners ==
    {None, u_alice, u_bob}

\* the greatest number of calls of store_in_database
MaxStoreCalls ==
    2

InitStore ==
    /\ NoEnv
    /\ NoArgs
    /\ pc = "idle"
    /\ NoCrawl
    /\ NoAnnotation
    /\ EmptyStore
    /\ tables = TRUE
    /\ users = << >>
    /\ mails = << >>
    /\ FreshRun
    /\ NoServices

\* a call store_in_database(solutions, email) from outside a run
StoreCall(solutions, email, connects) ==
    /\ pc = "idle"
    /\ Len(calls) < MaxStoreCalls
    /\ LET r == store_in_database(db, seq, solutions, email, now, connects)
       IN  /\ db' = r.table
           /\ seq' = r.seq
           /\ now' = now + 1
           /\ calls' = Append(calls, Call(solutions, email, db, r))
           /\ fetched' = NoRead
    /\ UNCHANGED <<serviceVars, envVars, argVars, pc, crawlVars, annVars, sideVars, runVars>>

\* a request GET /api/solutions/{email}?limit=&offset=
GetUserSolutions(email, limit, offset) ==
    /\ pc = "idle"
    /\ fetched' \in get_user_solutions(db, email, limit, offset)
    /\ UNCHANGED <<serviceVars, envVars, argVars, pc, crawlVars, annVars, db, seq, now, calls,
                   sideVars, runVars>>

SpecStore ==
    /\ InitStore
    /\ [][\/ \E solutions \in StoreLists, email \in Owners, connects \in BOOLEAN :
                StoreCall(solutions, email, connects)
          \/ \E email \in Owners \ {None}, window \in {<<100, 0>>, <<1, 1>>} :
                GetUserSolutions(email, window[1], window[2])]_vars

----------------------------------------------------------------------------
(* Specification of a run: process_repository from its call to its end.    *)

\* a bare url, a tree url of a directory, a tree url of a file, and a
\* url that is no GitHub url
RunUrls ==
    { <<"h", "t", "t", "p", "s", ":", "/", "/", "g", "i", "t", "h", "u", "b", ".", "c", "o", "m", "/", "a", "n", "n", "/", "l", "c">>,
      <<"h", "t", "t", "p", "s", ":", "/", "/", "g", "i", "t", "h", "u", "b", ".", "c", "o", "m", "/", "a", "n", "n", "/", "l", "c", "/", "t", "r", "e", "e", "/", "m", "a", "i", "n", "/", "1", "5">>,
      <<"h", "t", "t", "p", "s", ":", "/", "/", "g", "i", "t", "h", "u", "b", ".", "c", "o", "m", "/", "a", "n", "n", "/", "l", "c", "/", "t", "r", "e", "e", "/", "m", "a", "i", "n", "/", "1", "-", "t", "w", "o", "-", "s", "u", "m", ".", "p", "y">>,
      <<"h", "t", "t", "p", "s", ":", "/", "/", "g", "i", "t", "l", "a", "b", ".", "c", "o", "m", "/", "a", "n", "n", "/", "l", "c">> }

\* replies of the text-generation call during a run: it raises, a text
\* with no array, an array of one, two and three entries
RunReplies ==
    { Raised,
      Text(FALSE, FALSE, FALSE, << >>),
      Text(TRUE, TRUE, TRUE, <<EntryAsked>>),
      Text(TRUE, TRUE, TRUE, <<EntryAsked, EntryLong>>),
      Text(TRUE, TRUE, TRUE, <<EntryAsked, EntryAsked, NonObject>>) }

InitRun ==
    /\ root \in {PairRoot, << >>}
    /\ \E F \in FaultSets(root) :
          /\ net \in NetOutcomes(root, F)
          /\ dl \in DlOutcomes(root, F)
    /\ github_url \in RunUrls
    /\ user_email \in {None, u_alice}
    /\ brevo_api_key \in BOOLEAN
    /\ pc = "test_connection"
    /\ NoCrawl
    /\ NoAnnotation
    /\ EmptyStore
    /\ NoSideEffects
    /\ FreshRun
    /\ NoServices

NextRun ==
    \/ \E reachable \in BOOLEAN : TestConnection(reachable)
    \/ Locate
    \/ Crawl
    \/ \E reply \in RunReplies : AnalyzeBatch(reply)
    \/ AnalyzeReturn
    \/ \E connects \in BOOLEAN : SetupDatabase(connects)
    \/ \E connects \in BOOLEAN : Store(connects)
    \/ \E registers, sends \in BOOLEAN : Register(registers, sends)
    \/ Summary
    \/ \E generated \in BOOLEAN, answer \in {"y", "n", "eof"} :
          Recommend(generated, answer)
    \/ Return

SpecRun ==
    InitRun /\ [][NextRun]_vars

\* what a completed first run over PairRoot for a user left: every request
\* answered 200 and the generation call failed, so that the two files were
\* stored with the defaults and the user was registered with two problems
FirstRun ==
    LET found == scan_repository(PairRoot,
                     [p \in DirPaths(PairRoot) \cup FilePaths(PairRoot) |-> "200"],
                     [p \in FilePaths(PairRoot) |-> "200"], s_empty).problems
        analyzed == analyze_batch(Batch(found, 0), Raised)
        r == store_in_database(<< >>, 1, analyzed, u_alice, 1, TRUE)
    IN  [db |-> r.table,
         seq |-> r.seq,
         calls |-> <<Call(analyzed, u_alice, << >>, r)>>,
         users |-> register_user(<< >>, u_alice, Len(analyzed))]

\* a second run for the same user: process_repository is called in the
\* state the first run left
InitRerun ==
    /\ root = PairRoot
    /\ \E F \in FaultSets(root) :
          /\ net \in NetOutcomes(root, F)
          /\ dl \in DlOutcomes(root, F)
    /\ github_url \in RunUrls
    /\ user_email = u_alice
    /\ brevo_api_key \in BOOLEAN
    /\ pc = "test_connection"
    /\ NoCrawl
    /\ NoAnnotation
    /\ db = FirstRun.db
    /\ seq = FirstRun.seq
    /\ now = 2
    /\ calls = FirstRun.calls
    /\ fetched = NoRead
    /\ tables = TRUE
    /\ users = FirstRun.users
    /\ mails = <<u_alice>>
    /\ FreshRun
    /\ NoServices

SpecRerun ==
    InitRerun /\ [][NextRun]_vars

\* a run that no operator attends: every step of process_repository is
\* taken when it can be, except the one that waits on input() at line 595.
\* The last two conditions are weak fairness of Locate and of Crawl written
\* out: each is enabled exactly at its position, is the only step from
\* there, and leaves that position for good
SpecRunUnattended ==
    /\ SpecRun
    /\ WF_vars(\/ \E reachable \in BOOLEAN : TestConnection(reachable)
               \/ \E reply \in RunReplies : AnalyzeBatch(reply)
               \/ AnalyzeReturn
               \/ \E connects \in BOOLEAN : SetupDatabase(connects)
               \/ \E connects \in BOOLEAN : Store(connects)
               \/ \E registers, sends \in BOOLEAN : Register(registers, sends)
               \/ Summary
               \/ Return)
    /\ []<>(pc # "locate")
    /\ []<>(pc # "crawl")

----------------------------------------------------------------------------
(* Specification of the locator: parse_github_url on the urls of a         *)
(* repository, bare and tree-style, and on urls of no repository.          *)

\* what a url of a repository is written from: owner, repository, what
\* follows the repository (nothing, or /tree/ with a branch and a subpath),
\* and whether a slash ends it
References ==
    [owner : { <<"a", "n", "n">>, <<"t", "r", "e", "e">>, <<"a", "-", "b">> },
     repo  : { <<"l", "c">>, <<"l", "c", ".", "g", "i", "t">>, <<"g", "i", "t", "h", "u", "b", ".", "c", "o", "m">> },
     tree  : { s_empty,
               s_tree \o <<"m", "a", "i", "n">>,
               s_tree \o <<"m", "a", "i", "n", "/", "1", "5">>,
               s_tree \o <<"d", "e", "v", "/", "a", "/", "b", ".", "p", "y">> },
     slash : BOOLEAN]

Url(ref) ==
    <<"h", "t", "t", "p", "s", ":", "/", "/">> \o s_github \o ref.owner \o s_slash \o ref.repo
        \o ref.tree \o (IF ref.slash THEN s_slash ELSE s_empty)

InitParse ==
    /\ NoEnv
    /\ github_url \in { Url(ref) : ref \in References }
                    \cup { s_empty, <<"h", "t", "t", "p", "s", ":", "/", "/", "g", "i", "t", "h", "u", "b", ".", "c", "o", "m", "/", "a", "n", "n">> }
    /\ user_email = None
    /\ brevo_api_key = FALSE
    /\ pc = "locate"
    /\ NoCrawl
    /\ NoAnnotation
    /\ EmptyStore
    /\ NoSideEffects
    /\ FreshRun
    /\ NoServices

SpecParse ==
    InitParse /\ [][Locate]_vars

----------------------------------------------------------------------------
(* Specification of the store with crashes: calls of store_in_database     *)
(* that return, and calls during which the process dies.                   *)

\* the process dies in store_in_database(solutions, email) after the loop
\* body ran for the first k records and before conn.commit() at line 448:
\* the server rolls the open transaction back; the values drawn from the
\* SERIAL sequence stay drawn
StoreCrash(solutions, email, k) ==
    /\ pc = "idle"
    /\ Len(calls) < MaxStoreCalls
    /\ k \in 1..Len(solutions)
    /\ LET st == store_loop([table |-> db, aborted |-> FALSE, seq |-> seq,
                             inserted |-> 0, updated |-> 0],
                            SubSeq(solutions, 1, k), 1, email, now)
       IN  /\ db' = db
           /\ seq' = st.seq
           /\ now' = now + 1
           /\ calls' = Append(calls,
                  [solutions |-> solutions, user_email |-> email, before |-> db,
                   crashed |-> TRUE, executed |-> k, aborted |-> st.aborted,
                   inserted |-> st.inserted, updated |-> st.updated])
           /\ fetched' = NoRead
    /\ UNCHANGED <<serviceVars, envVars, argVars, pc, crawlVars, annVars, sideVars, runVars>>

SpecCrash ==
    InitStore /\ [][\/ \E solutions \in StoreLists, email \in Owners :
                          StoreCall(solutions, email, TRUE)
                    \/ \E solutions \in StoreLists, email \in Owners, k \in 1..3 :
                          StoreCrash(solutions, email, k)]_vars

----------------------------------------------------------------------------
(* Two calls of store_in_database at once: the background tasks of two     *)
(* /api/analyze requests, each on its own connection, so each in its own   *)
(* transaction at READ COMMITTED.  calls holds the two calls in progress:  *)
(* the next record k, the rows written and not yet committed, whether the  *)
(* transaction is aborted, and the outcome of each statement so far.       *)

\* the table a statement of a transaction sees and the table a commit
\* leaves: the committed rows, those the transaction wrote in their new
\* version, followed by the rows it inserted
Overlay(table, rows) ==
    [k \in 1..Len(table) |->
        IF \E j \in 1..Len(rows) : rows[j].id = table[k].id
        THEN rows[CHOOSE j \in 1..Len(rows) : rows[j].id = table[k].id]
        ELSE table[k]]
    \o SelectSeq(rows, LAMBDA r : \A k \in 1..Len(table) : table[k].id # r.id)

\* the statement of call w for its next record has to wait: the other call
\* wrote a row of that key in a transaction that is still open
Waits(w) ==
    LET c == calls[w]
        o == calls[3 - w]
    IN  /\ c.k <= Len(c.solutions)
        /\ IsDict(c.solutions[c.k])
        /\ ~c.aborted
        /\ ~TooLong(Values(c.solutions[c.k], c.user_email))
        /\ ~o.done
        /\ \E j \in 1..Len(o.rows) :
              Conflicts(o.rows[j], Values(c.solutions[c.k], c.user_email))

\* lines 404-446: one turn of the loop of call w.  A statement that waits
\* for the other call goes on when that call has committed; when each call
\* waits for the other, the server ends one statement with a deadlock error
RaceStep(w) ==
    LET c == calls[w]
        sol == c.solutions[c.k]
        vals == Values(sol, c.user_email)
        seen == Overlay(db, c.rows)
        r == upsert(seen, vals, seq, c.start)
        row == IF r.inserted THEN r.table[Len(r.table)]
               ELSE r.table[CHOOSE k \in 1..Len(seen) : Conflicts(seen[k], vals)]
        failed == [c EXCEPT !.k = c.k + 1, !.outcome = Append(c.outcome, "failed")]
    IN  /\ pc = "idle"
        /\ ~c.done
        /\ c.k <= Len(c.solutions)
        /\ Waits(w) => Waits(3 - w)
        /\ IF ~IsDict(sol) \/ c.aborted
           THEN /\ calls' = [calls EXCEPT ![w] = failed]
                /\ seq' = seq
           ELSE IF TooLong(vals) \/ Waits(w)
           THEN /\ calls' = [calls EXCEPT ![w] = [failed EXCEPT !.aborted = TRUE]]
                /\ seq' = seq
           ELSE /\ calls' = [calls EXCEPT ![w] =
                      [c EXCEPT !.k = c.k + 1,
                                !.rows = SelectSeq(c.rows, LAMBDA x : x.id # row.id)
                                         \o <<row>>,
                                !.outcome = Append(c.outcome,
                                    IF r.inserted THEN "inserted" ELSE "updated")]]
                /\ seq' = seq + 1
        /\ UNCHANGED <<serviceVars, envVars, argVars, pc, crawlVars, annVars, db, now, fetched,
                       sideVars, runVars>>

\* line 448: conn.commit() of call w; an aborted transaction is rolled back
RaceCommit(w) ==
    /\ pc = "idle"
    /\ ~calls[w].done
    /\ calls[w].k > Len(calls[w].solutions)
    /\ db' = IF calls[w].aborted THEN db ELSE Overlay(db, calls[w].rows)
    /\ calls' = [calls EXCEPT ![w].done = TRUE]
    /\ fetched' = NoRead
    /\ UNCHANGED <<serviceVars, envVars, argVars, pc, crawlVars, annVars, seq, now,
                   sideVars, runVars>>

\* the two calls, with the lists and the emails of their requests
InitRace ==
    /\ NoEnv
    /\ NoArgs
    /\ pc = "idle"
    /\ NoCrawl
    /\ NoAnnotation
    /\ db = << >>
    /\ seq = 1
    /\ now = 3
    /\ fetched = NoRead
    /\ \E l1, l2 \in {<<SolA>>, <<SolA2>>, <<SolA, SolB>>, <<SolB, SolA2>>,
                      <<SolA, SolLong>>, <<NonObject, SolA2>>},
          e1, e2 \in {u_alice, u_bob} :
          calls = [w \in 1..2 |->
                      [solutions |-> IF w = 1 THEN l1 ELSE l2,
                       user_email |-> IF w = 1 THEN e1 ELSE e2,
                       start |-> w, k |-> 1, rows |-> << >>,
                       aborted |-> FALSE, outcome |-> << >>, done |-> FALSE]]
    /\ tables = TRUE
    /\ users = << >>
    /\ mails = << >>
    /\ FreshRun
    /\ NoServices

SpecRace ==
    InitRace /\ [][\E w \in 1..2 : RaceStep(w) \/ RaceCommit(w)]_vars


----------------------------------------------------------------------------
(* DailyProblemScheduler: send_daily_problems and save_sent_problem        *)
(* (daily_scheduler.py).  A pass is one call of send_daily_problems.       *)

\* the greatest number of emails in outbox
MaxMails ==
    3

\* the last day of the calendar
MaxDays ==
    2

\* lines 274-348: one pass over the rows get_active_users returned.  For
\* each user not yet served today (line 314), outcome tells how the body of
\* the loop went: "raised" (an exception before the send, lines 340-342),
\* "not_sent" (send_daily_problem_email returned False), "sent_saved", or
\* "sent_unsaved" (the email was sent and save_sent_problem failed, which
\* it reports at line 272 without raising)
DailyProblemScheduler_send_daily_problems(outcome) ==
    LET due == { e \in DOMAIN sent_date : sent_date[e] # today }
        order == CHOOSE f \in [1..Cardinality(due) -> due] :
                    \A a, b \in DOMAIN f : a # b => f[a] # f[b]
        sent == SelectSeq(order, LAMBDA e : outcome[e] \in {"sent_saved", "sent_unsaved"})
    IN  /\ due # {}
        /\ Len(outbox) + Len(sent) <= MaxMails
        /\ outbox' = outbox \o [k \in 1..Len(sent) |->
                         [kind |-> "daily", to |-> sent[k], day |-> today, row |-> 0]]
        /\ sent_date' = [e \in DOMAIN sent_date |->
                            IF e \in due /\ outcome[e] = "sent_saved"
                            THEN today ELSE sent_date[e]]
        /\ UNCHANGED <<envVars, argVars, pc, crawlVars, annVars, dbVars, sideVars,
                       runVars, today, schedule, subscription, procs, sup>>

\* midnight passes
NextDay ==
    /\ today < MaxDays
    /\ today' = today + 1
    /\ UNCHANGED <<envVars, argVars, pc, crawlVars, annVars, dbVars, sideVars,
                   runVars, sent_date, outbox, schedule, subscription, procs, sup>>

\* any number of passes on any day
SpecDaily ==
    /\ Idle
    /\ [][\/ \E outcome \in [DOMAIN sent_date ->
                    {"raised", "not_sent", "sent_saved", "sent_unsaved"}] :
                DailyProblemScheduler_send_daily_problems(outcome)
          \/ NextDay]_vars

----------------------------------------------------------------------------
(* CourseEmailScheduler.send_daily_problems (course_email_scheduler.py)    *)

\* lines 33-102: one pass.  The rows of today that are 'pending' are
\* selected (lines 40-55); for each, _send_email returns success[id] and
\* the UPDATE of lines 91-95 sets 'sent' or 'failed'.  All UPDATEs run in
\* the one transaction that conn.commit() ends at line 100: when an UPDATE
\* of the pass raised (broken), the exception is printed at line 98, the
\* transaction is aborted, the UPDATEs after it raise as well and the
\* commit rolls back, so no status of the pass is stored
CourseEmailScheduler_send_daily_problems(success, broken) ==
    LET emails == { id \in DOMAIN schedule :
                       /\ schedule[id].scheduled_date = today
                       /\ schedule[id].status = "pending" }
        order == CHOOSE f \in [1..Cardinality(emails) -> emails] :
                    \A a, b \in DOMAIN f : a # b => f[a] # f[b]
        sent == SelectSeq(order, LAMBDA id : success[id])
    IN  /\ emails # {}
        /\ Len(outbox) + Len(sent) <= MaxMails
        /\ outbox' = outbox \o [k \in 1..Len(sent) |->
                         [kind |-> "course", to |-> schedule[sent[k]].user_email,
                          day |-> today, row |-> sent[k]]]
        /\ schedule' = IF broken THEN schedule
                       ELSE [id \in DOMAIN schedule |->
                                IF id \in emails
                                THEN [schedule[id] EXCEPT
                                        !.status = IF success[id] THEN "sent" ELSE "failed"]
                                ELSE schedule[id]]
        /\ UNCHANGED <<envVars, argVars, pc, crawlVars, annVars, dbVars, sideVars,
                       runVars, today, sent_date, subscription, procs, sup>>

\* any number of passes on any day
SpecCourse ==
    /\ Idle
    /\ [][\/ \E success \in [DOMAIN schedule -> BOOLEAN], broken \in BOOLEAN :
                CourseEmailScheduler_send_daily_problems(success, broken)
          \/ NextDay]_vars

----------------------------------------------------------------------------
(* CourseService: subscribe_user and mark_completed (course_service.py)    *)

\* the problem numbers of the one company of the model
CompanyProblems ==
    {"1", "2", "3"}

\* the greatest value of the counter 'completed'
MaxCompleted ==
    4

\* lines 68-128: the subscription of email is inserted with the progress
\* {'completed': 0, 'total': total}; ON CONFLICT (lines 96-100) renews an
\* existing subscription and leaves its progress as it is
CourseService_subscribe_user(email) ==
    /\ subscription' =
          IF email \in DOMAIN subscription THEN subscription
          ELSE [e \in DOMAIN subscription \cup {email} |->
                   IF e = email
                   THEN [completed |-> 0, total |-> Cardinality(CompanyProblems), rows |-> {}]
                   ELSE subscription[e]]
    /\ UNCHANGED <<envVars, argVars, pc, crawlVars, annVars, dbVars, sideVars,
                   runVars, today, sent_date, outbox, schedule, procs, sup>>

\* lines 194-237: no subscription or no such problem returns False (lines
\* 209-211); otherwise the row of user_course_progress is upserted as
\* 'completed' (lines 213-219) and 'completed' of the subscription is
\* incremented (lines 221-228); a statement that raises (~ok) rolls both
\* back (line 233)
CourseService_mark_completed(email, prob_num, ok) ==
    /\ email \in DOMAIN subscription => subscription[email].completed < MaxCompleted
    /\ subscription' =
          IF email \in DOMAIN subscription /\ prob_num \in CompanyProblems /\ ok
          THEN [subscription EXCEPT
                   ![email].rows = @ \cup {prob_num},
                   ![email].completed = @ + 1]
          ELSE subscription
    /\ UNCHANGED <<envVars, argVars, pc, crawlVars, annVars, dbVars, sideVars,
                   runVars, today, sent_date, outbox, schedule, procs, sup>>

\* two users, with any calls of /api/courses subscribe and complete
SpecProgress ==
    /\ Idle
    /\ [][\/ \E email \in {u_alice, u_bob} : CourseService_subscribe_user(email)
          \/ \E email \in {u_alice, u_bob}, prob_num \in CompanyProblems \cup {"9"},
                ok \in BOOLEAN :
                CourseService_mark_completed(email, prob_num, ok)]_vars

----------------------------------------------------------------------------
(* The supervisor main() and its three child processes (main.py).          *)
(* procs[n] is "alive", "terminating" (SIGTERM received and not yet        *)
(* exited) or "dead"; a child is in DOMAIN procs once it was started.      *)

\* lines 161-177: the children in the order main() starts them
ProcessNames ==
    <<"API-Server", "Behavior-Scheduler", "Course-Scheduler">>

\* lines 161-177: Process(...).start() of the next child and
\* processes.append; after the third the monitor loop is entered
StartProcess ==
    /\ sup.pc = "start"
    /\ LET n == ProcessNames[sup.i]
       IN  procs' = [m \in DOMAIN procs \cup {n} |-> IF m = n THEN "alive" ELSE procs[m]]
    /\ sup' = IF sup.i = Len(ProcessNames)
              THEN [sup EXCEPT !.pc = "monitor", !.i = 1]
              ELSE [sup EXCEPT !.i = @ + 1]
    /\ UNCHANGED <<envVars, argVars, pc, crawlVars, annVars, dbVars, sideVars,
                   runVars, today, sent_date, outbox, schedule, subscription>>

\* a child ends: on its own (run_api_server and the run_..._scheduler
\* functions end with sys.exit(1) on any failure, lines 32-34, 51-56 and
\* 70-74), or after the SIGTERM of terminate()
ProcessExits(n) ==
    /\ n \in DOMAIN procs
    /\ procs[n] # "dead"
    /\ procs' = [procs EXCEPT ![n] = "dead"]
    /\ UNCHANGED <<envVars, argVars, pc, crawlVars, annVars, dbVars, sideVars,
                   runVars, today, sent_date, outbox, schedule, subscription, sup>>

\* lines 199-206: a turn of the monitor loop that finds a child not alive
\* raises Exception, which enters the handler of lines 228-237
Monitor ==
    /\ sup.pc = "monitor"
    /\ \E n \in DOMAIN procs : procs[n] = "dead"
    /\ sup' = [sup EXCEPT !.pc = "cleanup", !.i = 1, !.observed = TRUE]
    /\ UNCHANGED <<envVars, argVars, pc, crawlVars, annVars, dbVars, sideVars,
                   runVars, today, sent_date, outbox, schedule, subscription, procs>>

\* lines 208-226: Ctrl+C while main() is inside the try: every child
\* started is terminated, joined for 5 s and killed if still alive, and
\* main() ends with sys.exit(0)
KeyboardInterrupt ==
    /\ sup.pc \in {"start", "monitor"}
    /\ procs' = [n \in DOMAIN procs |-> "dead"]
    /\ sup' = [sup EXCEPT !.pc = "exited", !.status = 0,
                          !.terminated = { n \in DOMAIN procs : procs[n] # "dead" }]
    /\ UNCHANGED <<envVars, argVars, pc, crawlVars, annVars, dbVars, sideVars,
                   runVars, today, sent_date, outbox, schedule, subscription>>

\* the handler leaving its children alone: every child is passed over
Cleanup_not_terminating ==
    /\ sup.pc = "cleanup"
    /\ LET last == sup.i = Len(ProcessNames)
       IN  sup' = [sup EXCEPT !.i = IF last THEN 1 ELSE @ + 1,
                             !.pc = IF last THEN "atexit" ELSE @,
                             !.status = IF last THEN 1 ELSE @]
    /\ UNCHANGED <<envVars, argVars, pc, crawlVars, annVars, dbVars, sideVars,
                   runVars, today, sent_date, outbox, schedule, subscription, procs>>

\* lines 232-234: one turn of the loop of the handler: a child that
\* is_alive() gets terminate(), and the supervisor waits in join; a dead
\* child is passed over.  After the last child sys.exit(1) is called
Cleanup ==
    /\ sup.pc = "cleanup"
    /\ LET n == ProcessNames[sup.i]
           last == sup.i = Len(ProcessNames)
       IN  IF procs[n] # "dead"
           THEN /\ procs' = [procs EXCEPT ![n] = "terminating"]
                /\ sup' = [sup EXCEPT !.pc = "join", !.terminated = @ \cup {n}]
           ELSE /\ procs' = procs
                /\ sup' = [sup EXCEPT !.i = IF last THEN 1 ELSE @ + 1,
                                      !.pc = IF last THEN "atexit" ELSE @,
                                      !.status = IF last THEN 1 ELSE @]
    /\ UNCHANGED <<envVars, argVars, pc, crawlVars, annVars, dbVars, sideVars,
                   runVars, today, sent_date, outbox, schedule, subscription>>

\* line 235: join(timeout=5) returns, when the child has exited or after
\* 5 s with the child still running; there is no kill().  After the last
\* child sys.exit(1) is called (line 237)
Join ==
    /\ sup.pc = "join"
    /\ LET last == sup.i = Len(ProcessNames)
       IN  sup' = [sup EXCEPT !.i = IF last THEN 1 ELSE @ + 1,
                             !.pc = IF last THEN "atexit" ELSE "cleanup",
                             !.status = IF last THEN 1 ELSE @]
    /\ UNCHANGED <<envVars, argVars, pc, crawlVars, annVars, dbVars, sideVars,
                   runVars, today, sent_date, outbox, schedule, subscription, procs>>

\* sys.exit(1) at line 237 raises SystemExit; before the interpreter ends,
\* the exit handler that multiprocessing registers joins every child that
\* is not a daemon, so the supervisor ends when the last child has
AtExit ==
    /\ sup.pc = "atexit"
    /\ \A n \in DOMAIN procs : procs[n] = "dead"
    /\ sup' = [sup EXCEPT !.pc = "exited"]
    /\ UNCHANGED <<envVars, argVars, pc, crawlVars, annVars, dbVars, sideVars,
                   runVars, today, sent_date, outbox, schedule, subscription, procs>>

\* main() from line 158 on.  The supervisor keeps running (time.sleep(1)
\* between the turns of the monitor loop), and a child that received
\* SIGTERM ends: the schedulers have the default disposition of SIGTERM,
\* and the API server shuts down when its requests have ended
SpecSupervisor ==
    /\ Idle
    /\ [][\/ StartProcess
          \/ \E n \in DOMAIN procs : ProcessExits(n)
          \/ Monitor
          \/ KeyboardInterrupt
          \/ Cleanup
          \/ Join
          \/ AtExit]_vars
    /\ WF_vars(StartProcess)
    /\ WF_vars(Monitor)
    /\ WF_vars(Cleanup)
    /\ WF_vars(Join)
    /\ WF_vars(AtExit)
    /\ WF_vars(\E n \in DOMAIN procs : procs[n] = "terminating" /\ ProcessExits(n))

----------------------------------------------------------------------------
(* Claims about the annotator, checked under SpecAnalyze.                  *)

\* analyze_with_gemini has returned
AnalyzeReturned ==
    pc = "setup_database"

\* C1: for every file list and every reply of the text-generation call,
\* analyze_with_gemini returns exactly as many records as input files, and
\* the record at index k carries the path of input file k.
C1_Aligned ==
    AnalyzeReturned =>
        /\ Len(all_analyzed) = Len(problems)
        /\ \A k \in 1..Len(problems) :
              Get(all_analyzed[k], "path", None) = problems[k].path

\* the batch of the last iteration of the loop
LastBatch ==
    Batch(problems, i - batch_size)

\* a record with the default analysis fields and the given explanation
IsDefault(rec, explanation) ==
    /\ rec.difficulty = <<"U", "n", "k", "n", "o", "w", "n">>
    /\ rec.time_complexity = <<"U", "n", "k", "n", "o", "w", "n">>
    /\ rec.space_complexity = <<"U", "n", "k", "n", "o", "w", "n">>
    /\ rec.algorithms = << >>
    /\ rec.data_structures = << >>
    /\ rec.tags = << >>
    /\ rec.explanation = explanation

\* the last iteration added one default record per file of its batch
DefaultsForLastBatch(explanation) ==
    /\ Len(appended) = Len(LastBatch)
    /\ \A k \in 1..Len(appended) :
          /\ IsDict(appended[k])
          /\ IsDefault(appended[k], explanation)
          /\ appended[k].path = LastBatch[k].path
          /\ appended[k].code = LastBatch[k].code

\* the reply of the last iteration has no '[' ... ']' or does not decode
Malformed ==
    /\ response.kind = "text"
    /\ ~response.open \/ ~response.close \/ ~response.decodes

\* C8: a batch whose reply has no '[' ... ']' structure or does not decode
\* gets exactly one default record per file ('Unknown' difficulty and
\* complexities, empty algorithms, data structures and tags) with
\* explanation 'Analysis pending'; when the call raised, the same defaults
\* with explanation 'Analysis failed'.
C8_Defaults ==
    i > 0 =>
        /\ Malformed => DefaultsForLastBatch(s_pending)
        /\ response.kind = "raise" => DefaultsForLastBatch(s_failed)

\* a four-file list, the first batch (three files) answered by a text that
\* has no array, the second (one file) by a call that raised
C8_Witness ==
    /\ AnalyzeReturned
    /\ Len(problems) = 4
    /\ Len(all_analyzed) = 4
    /\ response.kind = "raise"
    /\ \A k \in 1..3 : Get(all_analyzed[k], "explanation", s_empty) = s_pending
    /\ Get(all_analyzed[4], "explanation", s_empty) = s_failed

----------------------------------------------------------------------------
(* Claims about the crawl, checked under SpecScan.                         *)

\* scan_repository has returned or raised
CrawlOver ==
    pc # "crawl"

\* character c is letter l (a lower-case letter) in either case
SameLetter(c, l) ==
    \/ c = l
    \/ \E n \in 1..Len(LowerChars) : LowerChars[n] = l /\ UpperChars[n] = c

\* word (in lower case) occurs in s in some letter case
OccursAnyCase(word, s) ==
    \E k \in 1..Len(s) :
        /\ k + Len(word) - 1 <= Len(s)
        /\ \A j \in 1..Len(word) : SameLetter(s[k + j - 1], word[j])

Forbidden(path) ==
    \/ OccursAnyCase(<<"t", "e", "s", "t">>, path)
    \/ OccursAnyCase(<<"h", "e", "l", "p", "e", "r">>, path)

\* C9: for every repository tree, scan_repository yields no file whose path
\* contains 'test' or 'helper' in any letter case, whatever its extension
\* and directory depth.
C9_NoTestNoHelper ==
    \A k \in 1..Len(problems) : ~Forbidden(problems[k].path)

\* the crawl is over, it yielded files, and the repository has a source
\* file below the root whose path has a forbidden word and whose download
\* succeeds
C9_Witness ==
    /\ CrawlOver
    /\ located.path = s_empty
    /\ problems # << >>
    /\ \A p \in DOMAIN net : net[p] = "200"
    /\ \E f \in FilePaths(root) :
          /\ Forbidden(f)
          /\ is_code_file(f)
          /\ Contains(s_slash, f)
          /\ dl[f] = "200"

\* the repository of the scenario, crawled from its root with every request
\* answered
ScenarioCrawled ==
    /\ CrawlOver
    /\ root = ScenarioRoot
    /\ located.path = s_empty
    /\ \A p \in DOMAIN net : net[p] = "200"
    /\ \A f \in DOMAIN dl : dl[f] = "200"

\* problems is exactly 1-two-sum.py as Python with problem id '1' and
\* longest-substring.go as Go with problem id number
ScenarioYield(number) ==
    /\ Len(problems) = 2
    /\ \E a, b \in 1..2 :
          /\ a # b
          /\ problems[a].filename = n_two_sum
          /\ problems[a].language = <<"P", "y", "t", "h", "o", "n">>
          /\ problems[a].problem_number = <<"1">>
          /\ problems[b].filename = n_longest
          /\ problems[b].language = <<"G", "o">>
          /\ problems[b].problem_number = number

\* C10, as claimed: crawling 1-two-sum.py, test_utils.py and
\* 15/longest-substring.go yields exactly 1-two-sum.py (Python, problem '1')
\* and longest-substring.go (Go, problem '15').
C10_AsClaimed ==
    ScenarioCrawled => ScenarioYield(<<"1", "5">>)

\* C10, amended: the same crawl yields exactly 1-two-sum.py (Python, problem
\* '1') and longest-substring.go (Go, problem 'Unknown'): the directory name
\* 15 is not searched, test_utils.py is not yielded.
C10_Scenario ==
    ScenarioCrawled => ScenarioYield(<<"U", "n", "k", "n", "o", "w", "n">>)

C10_Witness ==
    ScenarioCrawled /\ Len(problems) = 2

----------------------------------------------------------------------------
(* Claims about the store, checked under SpecStore.                        *)

\* C2: calling store_in_database twice in a row with the same record list
\* and the same owner inserts no row on the second call and counts every
\* record of the list as updated.
C2_Idempotent ==
    \A n \in 2..Len(calls) :
        ( /\ calls[n].solutions = calls[n - 1].solutions
          /\ calls[n].user_email = calls[n - 1].user_email
          /\ ~calls[n - 1].raised
          /\ ~calls[n].raised )
        => /\ calls[n].inserted = 0
           /\ calls[n].updated = Len(calls[n].solutions)

\* C3: after any sequence of store_in_database calls with any owners, a
\* null owner included, leetcode_solutions holds at most one row per key
\* (problem_number, language, file_path, user_email).
C3_OneRowPerKey ==
    \A a, b \in 1..Len(db) :
        a # b => \E c \in {"problem_number", "language", "file_path", "user_email"} :
                     db[a][c] # db[b][c]

\* the last call of store_in_database wrote the one record of its list
WroteOne(c) ==
    /\ ~c.raised
    /\ Len(c.solutions) = 1
    /\ c.inserted + c.updated = 1

\* the row of table with the key of record sol of owner email, 0 when none
RowOfKey(table, sol, email) ==
    IF \E k \in 1..Len(table) :
          /\ table[k].problem_number = Get(sol, "problem_number", s_Unknown)
          /\ table[k].language = Get(sol, "language", s_Unknown)
          /\ table[k].file_path = Get(sol, "path", s_empty)
          /\ table[k].user_email = email
    THEN CHOOSE k \in 1..Len(table) :
          /\ table[k].problem_number = Get(sol, "problem_number", s_Unknown)
          /\ table[k].language = Get(sol, "language", s_Unknown)
          /\ table[k].file_path = Get(sol, "path", s_empty)
          /\ table[k].user_email = email
    ELSE 0

\* C4: when store_in_database writes a record whose key already exists, the
\* stored row's title, difficulty, complexities, algorithms, data
\* structures, explanation, tags and code become those of the new record,
\* while its key fields, its creation timestamp and the number of rows of
\* the table stay unchanged.
C4_LastWriteWins ==
    calls # << >> =>
        LET c == calls[Len(calls)]
            sol == c.solutions[1]
            k == RowOfKey(c.before, sol, c.user_email)
        IN  (WroteOne(c) /\ k > 0) =>
                /\ Len(db) = Len(c.before)
                /\ db[k].problem_title = Get(sol, "problem_title", s_Unknown)
                /\ db[k].difficulty = Get(sol, "difficulty", s_Unknown)
                /\ db[k].time_complexity = Get(sol, "time_complexity", s_Unknown)
                /\ db[k].space_complexity = Get(sol, "space_complexity", s_Unknown)
                /\ db[k].algorithms = Get(sol, "algorithms", << >>)
                /\ db[k].data_structures = Get(sol, "data_structures", << >>)
                /\ db[k].explanation = Get(sol, "explanation", s_empty)
                /\ db[k].tags = Get(sol, "tags", << >>)
                /\ db[k].code = Get(sol, "code", s_empty)
                /\ db[k].problem_number = c.before[k].problem_number
                /\ db[k].language = c.before[k].language
                /\ db[k].file_path = c.before[k].file_path
                /\ db[k].user_email = c.before[k].user_email
                /\ db[k].created_at = c.before[k].created_at

----------------------------------------------------------------------------
(* Claims about a whole run of process_repository, checked under SpecRun.  *)

StageOrder ==
    <<"Located", "Crawled", "Classified", "Annotated", "Stored", "Done">>

Entered(s) ==
    \E k \in 1..Len(stages) : stages[k] = s

Printed(message) ==
    \E k \in 1..Len(printed) : printed[k] = message

Returned ==
    pc = "returned"

\* the stages entered so far are the first ones of StageOrder, in order,
\* followed by nothing or by Failed alone
InOrder ==
    \A k \in 2..Len(stages) :
        \/ k - 1 <= Len(StageOrder) /\ stages[k] = StageOrder[k - 1]
        \/ k = Len(stages) /\ stages[k] = "Failed"

\* no directory listing and no file fetch once the crawl is over
NoCrawlAfterCrawled ==
    \A k \in 1..Len(log) :
        log[k].op \in {"list", "fetch"} => log[k].at = "Located"

\* the calls of the text-generation service made in stage s
Generations(s) ==
    { k \in 1..Len(log) : log[k].op = "generate" /\ log[k].at = s }

Fatal ==
    {"connection", "reference", "crawl", "database_setup", "database_connect"}

\* C6 as stated: a run ends in Failed only before the crawl is over; once
\* the files are classified, no error ends the run before Done.
C6_AsClaimed ==
    (Returned /\ Entered("Classified")) => Entered("Done")

\* C6: a run ends in Failed only when the connection test, the reference
\* parsing or the crawl failed, when the crawl found no file, or when the
\* database could not be set up or connected to; errors of the
\* text-generation call, replies that do not parse, records that cannot be
\* written, and failures of the registration or of the welcome email never
\* end a run before Done.
C6_FatalOnly ==
    /\ stage = "Failed" =>
          \/ errors \cap Fatal # {}
          \/ Entered("Located") /\ ~Entered("Crawled") /\ problems = << >>
    /\ (Returned /\ Entered("Classified")
          /\ errors \cap {"database_setup", "database_connect"} = {})
       => Entered("Done")

C6_Witness ==
    /\ Returned
    /\ Entered("Done")
    /\ "record" \in errors
    /\ errors \cap Fatal = {}

\* C7 as stated: every run that gets past the crawl returns a summary
\* value to its caller.
C7_AsClaimed ==
    (Returned /\ Entered("Classified")) => result = "summary"

\* C7: a run that gets past the crawl returns no value, or raises at the
\* summary when a record of the analysis is no dictionary; it prints the
\* total of solutions processed exactly when the database was set up and
\* connected to, also when batches or records failed.
C7_PrintedSummary ==
    (Returned /\ Entered("Classified")) =>
        /\ result \in {"None", "raised"}
        /\ result = "raised" <=>
              /\ Entered("Done")
              /\ \E k \in 1..Len(all_analyzed) : ~IsDict(all_analyzed[k])
        /\ Printed("Total solutions processed") <=>
              errors \cap {"database_setup", "database_connect"} = {}

C7_Witness ==
    /\ Returned
    /\ result = "None"
    /\ Printed("Total solutions processed")
    /\ errors \cap {"generation", "unparsable", "record"} # {}

----------------------------------------------------------------------------
(* Claims about the locator, checked under SpecParse.                      *)

Located ==
    pc # "locate"

\* C11: for every owner and repository, parse_github_url returns for a
\* tree url of the repository, with or without a branch subpath and a
\* trailing slash, the owner and the repo it returns for the bare url; the
\* subpath of the bare url is empty.
C11_SameRepository ==
    \A ref \in References :
        (Located /\ github_url = Url(ref)) =>
            LET bare == parse_github_url(Url([ref EXCEPT !.tree = s_empty,
                                                         !.slash = FALSE]))
            IN  /\ located.ok /\ bare.ok
                /\ located.owner = bare.owner
                /\ located.repo = bare.repo
                /\ bare.path = s_empty
                /\ ref.tree = s_empty => located.path = s_empty

\* a tree url with a subpath, of a repository named with .git, was parsed
C11_Witness ==
    /\ Located
    /\ located.ok
    /\ located.path # s_empty
    /\ Contains(s_git, github_url)

\* the url has neither shape: 'github.com/' followed by two segments occurs
\* nowhere in it
NeitherShape(url) ==
    \A k \in 1..Len(url) : RepoMatchAt(RStripSlash(url), k) = << >>

\* C12: when the reference matches neither url shape, parse_github_url
\* raises and the run ends in failure without a directory listing, a file
\* fetch, a text-generation call or a write to the store.
C12_InvalidReferenceFails ==
    (pc \notin {"test_connection", "locate"} /\ "connection" \notin errors
        /\ NeitherShape(github_url)) =>
        /\ ~located.ok
        /\ pc = "returned"
        /\ stage = "Failed"
        /\ result = "None"
        /\ \A k \in 1..Len(log) :
              log[k].op \notin {"list", "fetch", "generate", "setup_database",
                                "store", "register_user", "save_recommendation"}
        /\ db = << >>
        /\ calls = << >>
        /\ users = << >>

C12_Witness ==
    /\ NeitherShape(github_url)
    /\ "reference" \in errors
    /\ pc = "returned"
    /\ printed = <<"GitHub extraction error">>

----------------------------------------------------------------------------
(* Claims about reading back what was stored, checked under SpecStore.     *)

\* the last call of store_in_database returned and none of its writes failed
LastCallWroteAll ==
    /\ calls # << >>
    /\ LET c == calls[Len(calls)]
       IN  /\ ~c.raised
           /\ \A k \in 1..Len(c.solutions) : IsDict(c.solutions[k])
           /\ FailingRecords(c.solutions, c.user_email) = {}

\* record k of the last call went to a key that did not exist, and no
\* other record of the call went to that key
FreshKey(k) ==
    LET c == calls[Len(calls)]
        sol == c.solutions[k]
    IN  /\ RowOfKey(c.before, sol, c.user_email) = 0
        /\ \A j \in 1..Len(c.solutions) :
              j # k => \E key \in {"problem_number", "language", "path"} :
                           c.solutions[j][key] # sol[key]

\* the response read after the last call covers every row of its owner
ReadAll ==
    /\ fetched # NoRead
    /\ fetched.offset = 0
    /\ fetched.limit >= fetched.total

\* entry e of a response has the values written for sol in the columns
\* that are selected and are neither key nor generated
SameSelected(e, sol) ==
    /\ e.problem_number = sol.problem_number
    /\ e.language = sol.language
    /\ e.problem_title = Get(sol, "problem_title", s_Unknown)
    /\ e.difficulty = Get(sol, "difficulty", s_Unknown)
    /\ e.time_complexity = Get(sol, "time_complexity", s_Unknown)
    /\ e.space_complexity = Get(sol, "space_complexity", s_Unknown)
    /\ e.algorithms = Get(sol, "algorithms", << >>)
    /\ e.data_structures = Get(sol, "data_structures", << >>)
    /\ e.explanation = Get(sol, "explanation", s_empty)
    /\ e.tags = Get(sol, "tags", << >>)

\* C13 as stated: a record written to a key that did not exist and read
\* back by its owner with no second write to the key has every non-key
\* field, the code included, equal to the value written.
C13_AsClaimed ==
    (LastCallWroteAll /\ ReadAll /\ fetched.email = calls[Len(calls)].user_email) =>
        \A k \in 1..Len(calls[Len(calls)].solutions) :
            FreshKey(k) =>
                LET sol == calls[Len(calls)].solutions[k]
                IN  \E j \in 1..Len(fetched.solutions) :
                        /\ SameSelected(fetched.solutions[j], sol)
                        /\ "code" \in DOMAIN fetched.solutions[j]
                        /\ fetched.solutions[j].code = Get(sol, "code", s_empty)

\* C13: a record written for an owner to a key that did not exist and read
\* back by get_user_solutions for that owner, in a window that covers the
\* owner's rows and with no second write to the key, has its title,
\* difficulty, complexities, algorithms, data structures, explanation and
\* tags equal to the values written; the response carries neither the code
\* nor the file path, and it never carries a row of another owner or of no
\* owner.
C13_ReadBack ==
    /\ (LastCallWroteAll /\ ReadAll /\ fetched.email = calls[Len(calls)].user_email) =>
          \A k \in 1..Len(calls[Len(calls)].solutions) :
              FreshKey(k) =>
                  \E j \in 1..Len(fetched.solutions) :
                      SameSelected(fetched.solutions[j], calls[Len(calls)].solutions[k])
    /\ \A j \in 1..Len(fetched.solutions) :
          /\ DOMAIN fetched.solutions[j] \cap {"code", "file_path", "user_email"} = {}
          /\ \E r \in 1..Len(db) :
                /\ db[r].id = fetched.solutions[j].id
                /\ db[r].user_email = fetched.email

\* two records were written to new keys of an owner in one call, and read
\* back, while the table also holds a row of no owner
C13_Witness ==
    /\ LastCallWroteAll
    /\ ReadAll
    /\ fetched.email = calls[Len(calls)].user_email
    /\ Len(calls[Len(calls)].solutions) = 2
    /\ \A k \in 1..2 : FreshKey(k)
    /\ Len(fetched.solutions) = 2
    /\ \E r \in 1..Len(db) : db[r].user_email = None

\* C14: when the write of one record fails inside store_in_database, only
\* that record is skipped: the call does not raise and every other record
\* of the list, before and after it, is in the table once the call returns.
C14_OnlyFailingSkipped ==
    calls # << >> =>
        LET c == calls[Len(calls)]
            failing == { k \in 1..Len(c.solutions) :
                           \/ ~IsDict(c.solutions[k])
                           \/ k \in FailingRecords(c.solutions, c.user_email) }
        IN  (~c.raised /\ failing # {}) =>
                \A k \in 1..Len(c.solutions) \ failing :
                    RowOfKey(db, c.solutions[k], c.user_email) > 0

----------------------------------------------------------------------------
(* Claim about a crash in the store stage, checked under SpecCrash.        *)

\* C15: when the process dies part-way through store_in_database, every
\* record whose upsert had been executed before the crash is in the table
\* afterwards; only the records not yet reached are missing.
C15_ExecutedSurvive ==
    calls # << >> =>
        LET c == calls[Len(calls)]
        IN  ("crashed" \in DOMAIN c /\ ~c.aborted) =>
                \A k \in 1..c.executed :
                    IsDict(c.solutions[k]) =>
                        RowOfKey(db, c.solutions[k], c.user_email) > 0

----------------------------------------------------------------------------
(* Claims about the batches of the annotator, checked under SpecAnalyze.   *)

\* the step submits the batch at i to the text-generation call
SubmitsBatch ==
    /\ pc = "annotate"
    /\ i < Len(problems)
    /\ log' # log

\* the call of the batch submitted by the step raised, or its reply could
\* not be parsed
BatchFails ==
    \/ response' = Raised
    \/ parse_gemini_response(response', Batch(problems, i)) = << >>

\* C16: a batch whose text-generation call raises or whose reply cannot be
\* parsed does not stop analyze_with_gemini: the records of earlier batches
\* are kept, one record per file of the batch is added, and the loop goes
\* on to the next batch, which is submitted whenever files are left.
C16_FailedBatchGoesOn ==
    [][(SubmitsBatch /\ BatchFails) =>
          /\ pc' = "annotate"
          /\ result' = "running"
          /\ SubSeq(all_analyzed', 1, Len(all_analyzed)) = all_analyzed
          /\ Len(all_analyzed') = Len(all_analyzed) + Len(Batch(problems, i))
          /\ i' = i + batch_size]_vars

\* the first batch failed, the second was submitted and answered, and
\* analyze_with_gemini returned the records of both
C16_Witness ==
    /\ AnalyzeReturned
    /\ Len(problems) = 4
    /\ Len(all_analyzed) = 4
    /\ "explanation" \in DOMAIN all_analyzed[1]
    /\ all_analyzed[1].explanation = s_failed
    /\ "problem_title" \in DOMAIN all_analyzed[4]
    /\ all_analyzed[4].problem_title = <<"T", "w", "o", " ", "S", "u", "m">>
    /\ Cardinality(Generations("Start")) = 2

\* the number of batches of n files
BatchCount(n) ==
    (n + batch_size - 1) \div batch_size

\* C17: for n files analyze_with_gemini issues exactly ceil(n/3)
\* text-generation calls, one per batch, one after another; the batches are
\* consecutive slices of three files of the input, the last one possibly
\* shorter; a wait follows every call but the last.
C17_OneCallPerBatch ==
    LET n == Len(problems)
        done == Cardinality(Generations("Start"))
    IN  /\ i = batch_size * done
        /\ done <= BatchCount(n)
        /\ AnalyzeReturned => done = BatchCount(n)
        /\ \A k \in 1..Len(log) :
              log[k].op = IF k % 2 = 1 THEN "generate" ELSE "sleep"
        /\ Len(log) = IF done = 0 THEN 0
                      ELSE IF i < n THEN 2 * done ELSE 2 * done - 1
        /\ (done > 0 /\ response = Raised) =>
              /\ Len(appended) = IF i <= n THEN batch_size ELSE n - (i - batch_size)
              /\ \A k \in 1..Len(appended) :
                    appended[k] = FailedRecord(problems[i - batch_size + k])

\* four files: two calls with one wait between them, the second call for
\* the fourth file alone
C17_Witness ==
    /\ AnalyzeReturned
    /\ Len(problems) = 4
    /\ Len(log) = 3
    /\ response = Raised
    /\ appended = <<FailedRecord(problems[4])>>

\* the reply of the last iteration decoded to an array of objects
DecodedObjects ==
    /\ i > 0
    /\ response.kind = "text"
    /\ response.open /\ response.close /\ response.decodes
    /\ response.value # << >>
    /\ \A k \in 1..Len(response.value) : IsDict(response.value[k])

\* C18: for a reply that decodes to an array, every decoded entry is
\* returned with the code and the path of the batch file at the same index
\* and with a language, the reply's own when present and the file's
\* otherwise; no returned entry lacks code, path or language.
C18_EntriesMerged ==
    DecodedObjects =>
        /\ Len(appended) = Len(response.value)
        /\ \A k \in 1..Len(appended) :
              /\ {"code", "path", "language"} \subseteq DOMAIN appended[k]
              /\ k <= Len(LastBatch)
              /\ appended[k].code = LastBatch[k].code
              /\ appended[k].path = LastBatch[k].path
              /\ appended[k].language =
                    IF "language" \in DOMAIN response.value[k]
                    THEN response.value[k].language
                    ELSE LastBatch[k].language

----------------------------------------------------------------------------
(* Claims about the classifier and the listing, checked under SpecScan.    *)

\* r is the first run of digits of s, cut after four digits
FirstDigits(s, r) ==
    \E a \in 1..Len(s) :
        /\ \A b \in 1..(a - 1) : s[b] \notin Digits
        /\ Len(r) \in 1..4
        /\ a + Len(r) - 1 <= Len(s)
        /\ \A j \in 1..Len(r) : s[a + j - 1] \in Digits /\ r[j] = s[a + j - 1]
        /\ \/ Len(r) = 4
           \/ a + Len(r) > Len(s)
           \/ s[a + Len(r)] \notin Digits

\* 'problem', then at most one of '-' and '_', then four digits stand in s
\* at position k, the digits at position d
ProblemDigitsAt(s, k, d) ==
    /\ MatchAt(s_problem, s, k)
    /\ \/ d = k + 7
       \/ d = k + 8 /\ s[k + 7] \in {"-", "_"}
    /\ d + 3 <= Len(s)
    /\ \A j \in 0..3 : s[d + j] \in Digits

\* r is the four digits of the leftmost 'problem[-_]?dddd' of s
ProblemDigits(s, r) ==
    \E k, d \in 1..Len(s) :
        /\ ProblemDigitsAt(s, k, d)
        /\ \A k2 \in 1..(k - 1), d2 \in 1..Len(s) : ~ProblemDigitsAt(s, k2, d2)
        /\ r = SubSeq(s, d, d + 3)

\* C19: the problem number of a yielded file is the first run of 1 to 4
\* digits of its file name when the name has a digit; otherwise the four
\* digits after 'problem', optionally separated by '-' or '_', in its path
\* when the path has that pattern; otherwise 'Unknown'.  A directory named
\* by a number alone gives no problem number.
C19_ProblemNumber ==
    \A k \in 1..Len(problems) :
        LET p == problems[k]
        IN  IF \E a \in 1..Len(p.filename) : p.filename[a] \in Digits
            THEN FirstDigits(p.filename, p.problem_number)
            ELSE IF \E a, d \in 1..Len(p.path) : ProblemDigitsAt(p.path, a, d)
            THEN ProblemDigits(p.path, p.problem_number)
            ELSE p.problem_number = <<"U", "n", "k", "n", "o", "w", "n">>

\* the crawl yielded a file whose name has more than four digits, numbered
\* by the first four, and a file with no digit in its name and no
\* 'problem' in its path, numbered 'Unknown'
C19_Witness ==
    /\ \E k \in 1..Len(problems) :
          /\ problems[k].problem_number = <<"1", "2", "3", "4">>
          /\ Contains(<<"1", "2", "3", "4", "5">>, problems[k].filename)
    /\ \E k \in 1..Len(problems) :
          /\ problems[k].problem_number = <<"U", "n", "k", "n", "o", "w", "n">>
          /\ \A a \in 1..Len(problems[k].filename) :
                problems[k].filename[a] \notin Digits

\* the crawl asked for the listing of directory d: the directory it started
\* from, or a directory listed in it
ListingAsked(d) ==
    /\ located.path \in DirPaths(root)
    /\ \/ d = located.path
       \/ /\ net[located.path] = "200"
          /\ \E k \in 1..Len(Listing(root, located.path)) :
                /\ Listing(root, located.path)[k].type = "dir"
                /\ Listing(root, located.path)[k].path = d

\* the listing of directory d answered with the rate-limit status
RateLimited(d) ==
    /\ d \in DirPaths(root)
    /\ ListingAsked(d)
    /\ net[d] = "403"

\* file path lies in the subtree of directory d
Under(d, path) ==
    d = s_empty \/ MatchAt(d \o s_slash, path, 1)

\* C20: when the listing of a directory answers with a rate limit during
\* the crawl, no file of that subtree is yielded and the run is not failed.
C20_RateLimitNotFatal ==
    \A d \in DirPaths(root) :
        (pc # "crawl" /\ RateLimited(d))
            => /\ \A k \in 1..Len(problems) : ~Under(d, problems[k].path)
               /\ "Failed" \notin { stages[k] : k \in 1..Len(stages) }

----------------------------------------------------------------------------
(* Failures of single requests during the crawl.                           *)

\* path p is path d or lies in the subtree of directory d
AtOrUnder(d, p) ==
    p = d \/ Under(d, p)

\* the crawl reaches path d: it lies at or under the start path and every
\* directory above it, from the start path on, was listed with status 200
Reached(d) ==
    /\ AtOrUnder(located.path, d)
    /\ \A a \in DirPaths(root) :
          (AtOrUnder(located.path, a) /\ Under(a, d) /\ a # d) => net[a] = "200"

\* the listing of path d answered 404
NotFound(d) ==
    /\ Reached(d)
    /\ IF d \in DOMAIN net THEN net[d] = "404" ELSE TRUE

\* a file of the repository that scan_repository yields when it reaches it:
\* recognized, not excluded, downloaded with status 200 and not empty
Eligible(f) ==
    /\ f \in FilePaths(root)
    /\ is_code_file(f)
    /\ ~excluded([path |-> f])
    /\ dl[f] = "200"
    /\ TextAt(root, f) # s_empty

\* C21: when the listing of a path answers 404 during the crawl,
\* scan_repository raises nothing and yields no file of that branch, and
\* every file of the other branches that it reaches is still yielded.
C21_NotFoundBranchEmpty ==
    \A d \in DirPaths(root) \cup {located.path} :
        (pc # "crawl" /\ NotFound(d))
            => /\ "crawl" \notin errors
               /\ \A k \in 1..Len(printed) : printed[k] # "GitHub extraction error"
               /\ \A k \in 1..Len(problems) : ~AtOrUnder(d, problems[k].path)
               /\ \A f \in FilePaths(root) :
                     (Eligible(f) /\ Reached(f) /\ ~AtOrUnder(d, f))
                         => \E k \in 1..Len(problems) : problems[k].path = f

\* a directory below the start path answered 404 and the files beside it
\* were yielded
C21_Witness ==
    /\ pc = "annotate"
    /\ \E d \in DirPaths(root) : NotFound(d) /\ d # located.path
    /\ problems # << >>

\* the crawl is over and it yielded no file
CrawledNothing ==
    /\ \E k \in 1..Len(log) : log[k].op = "list"
    /\ pc \notin {"test_connection", "locate", "crawl"}
    /\ problems = << >>

\* C24: when the crawl yields no source file, process_repository returns
\* right after the crawl: no text-generation call is made, no table is
\* created, no solution row is written, no user is registered and no email
\* is sent.
C24_StopsAfterEmptyCrawl ==
    CrawledNothing
        => /\ pc = "returned"
           /\ result = "None"
           /\ \A k \in 1..Len(log) : log[k].op \in {"test_connection", "list", "fetch"}
           /\ tables = FALSE
           /\ db = << >>
           /\ calls = << >>
           /\ users = << >>
           /\ mails = << >>

\* a crawl of a repository that has files yielded none and the run returned
C24_Witness ==
    /\ CrawledNothing
    /\ root # << >>
    /\ \E k \in 1..Len(printed) : printed[k] = "No solutions found"

\* a file entry of a listing the crawl reaches that is recognized and not
\* excluded
Matching(f) ==
    /\ f \in FilePaths(root)
    /\ f # located.path
    /\ Reached(f)
    /\ is_code_file(f)
    /\ ~excluded([path |-> f])

\* C25: every file scan_repository yields was downloaded with status 200
\* and carries the non-empty text of the download; a matching file whose
\* download failed, answered another status or was empty is not yielded,
\* and no error is raised for it.
C25_NonEmptyTextOnly ==
    pc # "crawl"
        => /\ \A k \in 1..Len(problems) :
                 /\ dl[problems[k].path] = "200"
                 /\ problems[k].code # s_empty
                 /\ problems[k].code = TextAt(root, problems[k].path)
           /\ \A f \in FilePaths(root) :
                 (Matching(f) /\ ~Eligible(f))
                     => /\ \A k \in 1..Len(problems) : problems[k].path # f
                        /\ "crawl" \notin errors
                        /\ \A k \in 1..Len(printed) :
                              printed[k] # "GitHub extraction error"

\* the crawl yielded fewer files than matching entries: a matching entry
\* whose download did not answer 200, or whose text was empty, was dropped
C25_Witness ==
    /\ pc = "annotate"
    /\ Len(problems) < Cardinality({ f \in FilePaths(root) : Matching(f) })
    /\ \/ \E f \in FilePaths(root) : Matching(f) /\ dl[f] # "200"
       \/ \E f \in FilePaths(root) : Matching(f) /\ TextAt(root, f) = s_empty

\* C23: every run of process_repository eventually returns, in Done or in
\* Failed, without input from an operator.
C23_ReachesTerminal ==
    <>(pc = "returned" /\ stage \in {"Done", "Failed"})

\* both concurrent calls of store_in_database are over
RaceOver ==
    /\ Len(calls) = 2
    /\ \A w \in 1..2 : "done" \in DOMAIN calls[w] /\ calls[w].done

\* C22: when two concurrent runs write records of the same key, the store
\* ends with exactly one row of that key, whose other columns are all those
\* of one of the two writes, and exactly one of the two writes is counted
\* as an insert.
C22_RaceOneRow ==
    RaceOver
        => \A a \in 1..Len(calls[1].solutions), b \in 1..Len(calls[2].solutions) :
              LET sa == calls[1].solutions[a]
                  sb == calls[2].solutions[b]
                  va == Values(sa, calls[1].user_email)
                  vb == Values(sb, calls[2].user_email)
              IN  (IsDict(sa) /\ IsDict(sb) /\ Conflicts(va, vb))
                      => /\ Cardinality({ k \in 1..Len(db) : Conflicts(db[k], va) }) = 1
                         /\ \A k \in 1..Len(db) :
                               Conflicts(db[k], va)
                                   => \/ \A c \in UpdatedColumns : db[k][c] = va[c]
                                      \/ \A c \in UpdatedColumns : db[k][c] = vb[c]
                         /\ (calls[1].outcome[a] = "inserted")
                                # (calls[2].outcome[b] = "inserted")

\* C29: after completed runs for a user, total_problems_analyzed of the
\* user equals the number of rows of leetcode_solutions of that user.
C29_TotalIsRowCount ==
    (pc = "returned" /\ stage = "Done")
        => \A e \in DOMAIN users :
              users[e] = Cardinality({ k \in 1..Len(db) : db[k].user_email = e })

\* C26: on one calendar day each active user is sent at most one daily
\* problem email, over any number of calls of send_daily_problems, also
\* when save_sent_problem failed.
C26_OneDailyMailPerDay ==
    \A a, b \in 1..Len(outbox) :
        (/\ outbox[a].kind = "daily"
         /\ outbox[b].kind = "daily"
         /\ outbox[a].to = outbox[b].to
         /\ outbox[a].day = outbox[b].day)
            => a = b

\* C27: a schedule row that was emailed is stored with status 'sent', and
\* no schedule row is emailed twice, also when an UPDATE of the same pass
\* raised.
C27_EmailedRowsAreSentOnce ==
    /\ \A k \in 1..Len(outbox) :
          outbox[k].kind = "course" => schedule[outbox[k].row].status = "sent"
    /\ \A a, b \in 1..Len(outbox) :
          (/\ outbox[a].kind = "course"
           /\ outbox[b].kind = "course"
           /\ outbox[a].row = outbox[b].row)
              => a = b

\* C28: the counter 'completed' of every subscription equals the number of
\* its progress rows with status 'completed' and is at most its 'total'.
C28_CompletedCountsRows ==
    \A e \in DOMAIN subscription :
        /\ subscription[e].completed = Cardinality(subscription[e].rows)
        /\ subscription[e].completed <= subscription[e].total

====
